---- MODULE Spec2Model ----
(***************************************************************************)
(* Model of event_flow on one asyncio scheduler:                           *)
(*   - the dispatch engine (_EventEngine in core/event.py): the bounded    *)
(*     queue, the publishers, the drain loop of start() and the handler    *)
(*     tasks of process_event();                                           *)
(*   - the application runner (_AppRunner in core/application.py): the     *)
(*     hooks, timers and background tasks of start();                      *)
(*   - AppEngine.run(), which gathers the engine-level callbacks and then  *)
(*     the drain loop with the start() of every attached application.      *)
(*                                                                         *)
(* Scheduling is cooperative: a coroutine runs from one suspension point   *)
(* to the next without interleaving.  The drain loop suspends only in      *)
(* `await self._queue.get()` on an empty queue; a publisher suspends only  *)
(* in `await self._queue.put(event)` on a full queue.  The loop's run is   *)
(* split into steps (pc), and no other coroutine steps while the loop is   *)
(* between two suspension points.  A plain function that a decorator       *)
(* hands to asyncio.to_thread runs in a thread beside the scheduler.       *)
(* Each scenario has a specification of its own (Spec, SpecFull, SpecReg,  *)
(* SpecLive, SpecStop, SpecApp, SpecRun, SpecEnd, SpecAttach, SpecClock,   *)
(* SpecOffload, SpecPending, SpecAgain, SpecInherit, SpecTrack).           *)
(***************************************************************************)
EXTENDS Integers, Sequences, FiniteSets, TLC

\* Queue(maxsize=10) in _EventEngine.start
QueueMaxSize == 10

\* bounds of the model
MaxPublish == 4
MaxHandlers == 2
MaxPublishFull == 12
MaxRegister == 2
MaxPublishReg == 2
MaxPublishStop == 2
MaxTicks == 2
MaxSteps == 1
MaxPublishRun == 2
MaxAddApp == 2
MaxInterval == 1
MaxPublishAttach == 2
MaxPublishOffload == 2
MaxPublishPending == 3
MaxPublishLive == 12
MaxPublishAgain == 3
MaxPublishInherit == 3
MaxPublishTrack == 2

\* Event classes: A and its subclass B
EventTypes == {"A", "B"}
\* the base classes of a class below Event
Bases(t) == IF t = "B" THEN {"A"} ELSE {}
Payloads == {1}
\* handler bodies: one that returns, one that always raises, one that
\* publishes a further event before returning, and a plain function
HandlerNames == {"count", "fail", "relay", "block"}

\* Applications: one that is started on its own, two that are attached to
\* an AppEngine, and one whose class is a subclass and whose methods are
\* plain functions
Apps == {"sched", "db", "work", "clock", "audit"}
\* AppEngine._apps of the engine that is run, in list order
AppList == <<"db", "work">>
RunApps == {AppList[i] : i \in 1..Len(AppList)}
\* methods decorated with @timer, and the application that declares each
Timers == {"sync", "cleanup", "periodic", "tick"}
TimerApp(t) ==
    IF t = "periodic" THEN "db" ELSE IF t = "tick" THEN "clock" ELSE "sched"
\* TimerDetail.run_at_once of each timer
RunAtOnce(t) == t # "cleanup"
\* the class of each application is named as the application; the class
\* of clock is a subclass of Ticker, that of audit a subclass of Listener
BaseOf(c) ==
    IF c = "clock" THEN "ticker"
    ELSE IF c = "audit" THEN "listener" ELSE "Application"
\* the methods the body of each class decorates with @task, in order:
\* the class of clock overrides the method of its base class
TaskMethods(c) ==
    IF c = "sched" THEN <<"feeder", "monitor">>
    ELSE IF c = "db" THEN <<"pump">>
    ELSE IF c = "work" THEN <<"watch">>
    ELSE IF c \in {"clock", "ticker"} THEN <<"poll">>
    ELSE <<>>
\* Meta.__new__: __run_forever_registry__ of a class is a copy of the list
\* of its base class, to which the name of every @task method of the class
\* body is appended
RECURSIVE RunForeverRegistry(_)
RunForeverRegistry(c) ==
    IF c = "Application" THEN <<>>
    ELSE RunForeverRegistry(BaseOf(c)) \o TaskMethods(c)
\* the coroutine made of a further entry of the registry with the same name
Again(m) == IF m = "poll" THEN "poll_again" ELSE m
\* the method a coroutine runs
Method(w) == IF w = "poll_again" THEN "poll" ELSE w
\* build_background_tasks: one coroutine for every entry of the registry
RECURSIVE EntryTasks(_, _)
EntryTasks(reg, seen) ==
    IF reg = <<>> THEN <<>>
    ELSE <<IF Head(reg) \in seen THEN Again(Head(reg)) ELSE Head(reg)>>
             \o EntryTasks(Tail(reg), seen \cup {Head(reg)})
BackgroundTasks(a) == EntryTasks(RunForeverRegistry(a), {})
\* the coroutines of background tasks, and the application of each
Workers == {"feeder", "monitor", "pump", "watch", "poll", "poll_again"}
WorkerApp(w) ==
    IF w = "watch" THEN "work"
    ELSE IF w = "pump" THEN "db"
    ELSE IF Method(w) = "poll" THEN "clock" ELSE "sched"
\* a background task whose method is a plain function
Blocking(w) == Method(w) \in {"monitor", "watch", "poll"}
\* a timer whose method is a plain function
PlainTimer(t) == t = "tick"
\* a wrapped_func that awaits the plain function itself
OffloadedNever(plain) == FALSE
\* wrapped_func of @timer, @task and @on_event: a plain function is run
\* with asyncio.to_thread, a coroutine function is awaited
Offloaded(plain) == plain
\* callbacks registered with AppEngine.before_start
Callbacks == {"setup", "warmup"}
\* callbacks that can be registered with AppEngine.exit: a coroutine
\* function and a plain function
ExitCallbacks == {"engine_cleanup", "flush"}
IsCoroutineFunction(f) == f # "flush"

VARIABLES
    active,      \* _EventEngine._active
    qexists,     \* _EventEngine._queue is not None
    queue,       \* items of _EventEngine._queue, oldest first
    putters,     \* publishers suspended in Queue.put, oldest first
    woken,       \* suspended publishers whose wait was ended by a get
    handlers,    \* _EventEngine._handlers: type -> list of handlers
    tasks,       \* _EventEngine._tasks: ids of tracked handler tasks
    pc,          \* position of the start() coroutine
    qsize,       \* local qsize of start()
    got,         \* iterations of `for _ in range(qsize)` done
    events,      \* local dict events of start(), as batches in key order
    published,   \* history: every event pub_event accepted, by call
    enqOrder,    \* history: ids of events in the order they were enqueued
    invoked,     \* history: every handler(event) call made by process_event
    tstate,      \* state of each handler task, by index in invoked
    pubErrors,   \* history: number of pub_event calls that raised
    dispatched,  \* history: every batch passed to process_event
    round,       \* history: number of loop iterations that dequeued
    path,        \* history: branch of the last iteration that dequeued
    qAtSnap,     \* history: queue contents when that iteration started
    burst,       \* history: queue contents when get() last returned
    mark,        \* history: handler calls made before get() last returned
    regCalls,    \* history: handler lists passed to register_handler, by type
    spc,         \* position of each application's _AppRunner.start()
    why,         \* how the try block of that start() ended
    sres,        \* how that start() itself ended
    hook,        \* state of each application's before_start task
    exits,       \* number of calls of each application's exit()
    timer,       \* state of each build_timer task
    worker,      \* state of each background task and of its thread
    afterFail,   \* history: tasks that stepped after a sibling had raised
    rpc,         \* position of AppEngine.run()
    cbs,         \* state of each engine-level before_start callback
    rtasks,      \* tasks created by the second gather of run()
    exit_callbacks, \* AppEngine.exit_callbacks, in registration order
    ecb,         \* state of each engine-level exit callback
    apps,        \* AppEngine._apps
    engine,      \* Application.engine of each application
    err,         \* the exception the last operation on each application raised
    interval,    \* what @timer(interval) gave for each timer method
    launched,    \* history: tasks the gathers of start() made of each coroutine
    onLoop,      \* history: plain functions run on the scheduler's thread
    tth          \* thread of the running call of each plain-function timer
                 \* and what it ended with

vars == <<active, qexists, queue, putters, woken, handlers, tasks, pc, qsize,
          got, events, published, enqOrder, invoked, tstate, pubErrors,
          dispatched, round, path, qAtSnap, burst, mark, regCalls, spc, why,
          sres, hook, exits, timer, worker, afterFail, rpc, cbs, rtasks,
          exit_callbacks, ecb, apps, engine, err, interval, launched,
          onLoop, tth>>

engineVars == <<active, qexists, queue, putters, woken, handlers, tasks>>
loopVars == <<pc, qsize, got, events>>
histVars == <<published, enqOrder, invoked, tstate, pubErrors, dispatched,
             round, path, qAtSnap, burst, mark>>
exitVars == <<exit_callbacks, ecb>>
attachVars == <<apps, engine, err>>
taskVars == <<interval, launched, onLoop, tth>>
supVars == <<spc, why, sres, hook, exits, timer, worker, afterFail, rpc, cbs,
            rtasks, exitVars, attachVars, taskVars>>

----------------------------------------------------------------------------
\* helpers on sequences

Range(s) == {s[i] : i \in 1..Len(s)}

RECURSIVE Flatten(_)
Flatten(ss) == IF ss = <<>> THEN <<>> ELSE Head(ss) \o Flatten(Tail(ss))

SelectType(s, t) == SelectSeq(s, LAMBDA e : e.type = t)

Ids(s) == [i \in 1..Len(s) |-> s[i].id]

----------------------------------------------------------------------------
\* Event(data): an object of class t with payload d; id is the number of
\* the pub_event call that passes it (history).  The engine never looks at
\* the identity of the object: publishing one object twice is two calls
\* with the same class and payload.
NewEvent(id, t, d) == [id |-> id, type |-> t, data |-> d]

\* a capacity test that is one late
FullOffByOne(q) == Len(q) > QueueMaxSize

\* an unbounded queue
FullNever(q) == FALSE

\* asyncio.Queue.full() for maxsize > 0
Full(q) == Len(q) >= QueueMaxSize

\* asyncio.Queue.empty()
Empty(q) == Len(q) = 0

\* a process_event that awaits the tasks it created
AwaitedAll(ts) == ts

\* the tasks process_event awaits before it returns: it only creates them
Awaited(ts) == {}

\* process_event has returned to the loop
Processed == Awaited(tasks) = {}

\* nothing but the start() coroutine runs between two of its suspension
\* points: it is suspended before it is called, in get() and after it
\* returned or was cancelled; "woken" and "stale" are a get() on a queue
\* object that self._queue no longer names
LoopSuspended ==
    \/ pc \in {"init", "wait", "exited", "cancelled", "woken", "stale"}
    \/ pc = "top" /\ ~Processed

\* an interval argument of @timer: a number, or something else
Number(n) == [num |-> TRUE, val |-> n]
NotANumber == [num |-> FALSE, val |-> 0]

\* @timer(interval): TypeError unless the interval is an int or a float,
\* else the method gets TimerDetail(interval, run_at_once)
TimerDecorator(iv) ==
    IF ~iv.num THEN [raised |-> "TypeError", interval |-> 0]
    ELSE [raised |-> "none", interval |-> iv.val]

\* every timer method decorated with a positive interval
Positive == [t \in Timers |-> Number(1)]

\* the state after the classes are defined with the interval arguments ivs
\* and AppEngine(lst) is made: set_app_engine() sets the engine of every
\* application of the list
InitWith(lst, ivs) ==
    /\ active = FALSE
    /\ qexists = FALSE
    /\ queue = <<>>
    /\ putters = <<>>
    /\ woken = {}
    /\ handlers = [t \in EventTypes |-> <<>>]
    /\ tasks = {}
    /\ pc = "init"
    /\ qsize = 0
    /\ got = 0
    /\ events = <<>>
    /\ published = <<>>
    /\ enqOrder = <<>>
    /\ invoked = <<>>
    /\ tstate = <<>>
    /\ pubErrors = 0
    /\ dispatched = <<>>
    /\ round = 0
    /\ path = "none"
    /\ qAtSnap = <<>>
    /\ burst = <<>>
    /\ mark = 0
    /\ regCalls = [t \in EventTypes |-> <<>>]
    /\ spc = [a \in Apps |-> "none"]
    /\ why = [a \in Apps |-> "none"]
    /\ sres = [a \in Apps |-> "none"]
    /\ hook = [a \in Apps |-> "none"]
    /\ exits = [a \in Apps |-> 0]
    /\ timer = [t \in Timers |-> [pc |-> "none", calls |-> 0, sleeps |-> 0]]
    /\ worker = [w \in Workers |-> [co |-> "none", th |-> "none", steps |-> 0]]
    /\ afterFail = {}
    /\ rpc = "none"
    /\ cbs = [c \in Callbacks |-> "none"]
    /\ rtasks = {}
    /\ exit_callbacks = <<>>
    /\ ecb = [f \in ExitCallbacks |-> "none"]
    /\ apps = lst
    /\ engine = [a \in Apps |-> IF a \in Range(lst) THEN "set" ELSE "none"]
    /\ err = [a \in Apps |-> "none"]
    /\ interval = [t \in Timers |-> TimerDecorator(ivs[t])]
    /\ launched = [x \in Timers \cup Workers |-> 0]
    /\ onLoop = {}
    /\ tth = [t \in Timers |-> "none"]

\* AppEngine()
Init == InitWith(<<>>, Positive)

----------------------------------------------------------------------------
\* _EventEngine.register_handler(event_type, *handlers)

\* an extend that skips the handlers the entry holds already
ExtendUnique(tbl, t, hs) ==
    [tbl EXCEPT ![t] = @ \o SelectSeq(hs, LAMBDA h : h \notin Range(@))]

\* self._handlers[event_type].extend(async_handlers)
Extend(tbl, t, hs) == [tbl EXCEPT ![t] = @ \o hs]

RegisterHandler(t, hs) ==
    /\ LoopSuspended
    /\ handlers' = Extend(handlers, t, hs)
    /\ UNCHANGED <<active, qexists, queue, putters, woken, tasks>>
    /\ UNCHANGED loopVars
    /\ UNCHANGED histVars
    /\ regCalls' = [regCalls EXCEPT ![t] = Append(@, hs)]
    /\ UNCHANGED supVars

----------------------------------------------------------------------------
\* asyncio.Queue, as used by pub_event and start

\* a queue that puts at the head
PutNowaitFront(q, e) == <<e>> \o q

\* a get that leaves the item in the queue
GetRestPeek(q) == q

\* a queue in which a new item overtakes the newest one that waits
PutNowaitOvertake(q, e) ==
    IF q = <<>> THEN <<e>>
    ELSE SubSeq(q, 1, Len(q) - 1) \o <<e, q[Len(q)]>>

\* Queue.put_nowait: the item goes to the tail
PutNowait(q, e) == Append(q, e)

\* Queue.get_nowait: the item comes from the head
GetItem(q) == Head(q)
GetRest(q) == Tail(q)

\* a get_nowait that wakes no putter
WakeupNone(ps) == {}

\* get_nowait ends the wait of the oldest suspended putter, if any
WakeupNext(ps) == IF ps = <<>> THEN {} ELSE {Head(ps)}
AfterWakeup(ps) == IF ps = <<>> THEN <<>> ELSE Tail(ps)

\* _EventEngine.pub_event(event), called by the coroutine `who`
\* (0: a coroutine outside the engine, n > 0: handler task n):
\*   self._queue is None before start()  -> AttributeError in the caller
\*   queue full                          -> the caller suspends in put()
\*   otherwise                           -> the event is enqueued at once
PubEvent(ev, who) ==
    IF ~qexists
    THEN /\ pubErrors' = pubErrors + 1
         /\ UNCHANGED <<queue, putters, published, enqOrder>>
    ELSE IF Full(queue)
    THEN /\ putters' = Append(putters, [ev |-> ev, who |-> who])
         /\ published' = Append(published, ev)
         /\ UNCHANGED <<queue, enqOrder, pubErrors>>
    ELSE /\ queue' = PutNowait(queue, ev)
         /\ published' = Append(published, ev)
         /\ enqOrder' = Append(enqOrder, ev.id)
         /\ UNCHANGED <<putters, pubErrors>>

\* a coroutine outside the engine publishes a new event object
Publish(t, d) ==
    /\ LoopSuspended
    /\ PubEvent(NewEvent(Len(published) + 1, t, d), 0)
    /\ UNCHANGED <<active, qexists, woken, handlers, tasks>>
    /\ UNCHANGED loopVars
    /\ UNCHANGED <<invoked, tstate, dispatched, round, path, qAtSnap, burst,
                   mark>>
    /\ UNCHANGED <<regCalls, supVars>>

\* a handler task that has finished, taken together with its done callback
\* self._tasks.discard, which the loop runs in a later iteration of its own;
\* SpecTrack takes the two steps apart (TaskEnds, Discard)
Finish(ts, tk, who, res) ==
    IF who = 0 THEN <<ts, tk>>
    ELSE <<[ts EXCEPT ![who] = res], tk \ {who}>>

\* a publisher whose wait in Queue.put was ended runs again:
\* `while self.full()` - wait again at the back - else put_nowait
ResumePut(p) ==
    /\ LoopSuspended
    /\ p \in woken
    /\ woken' = woken \ {p}
    /\ IF Full(queue)
       THEN /\ putters' = Append(putters, p)
            /\ UNCHANGED <<queue, enqOrder, tstate, tasks>>
       ELSE /\ queue' = PutNowait(queue, p.ev)
            /\ enqOrder' = Append(enqOrder, p.ev.id)
            /\ tstate' = Finish(tstate, tasks, p.who, "ok")[1]
            /\ tasks' = Finish(tstate, tasks, p.who, "ok")[2]
            /\ UNCHANGED putters
    /\ UNCHANGED <<active, qexists, handlers>>
    /\ UNCHANGED loopVars
    /\ UNCHANGED <<published, invoked, pubErrors, dispatched, round, path,
                   qAtSnap, burst, mark>>
    /\ UNCHANGED <<regCalls, supVars>>

----------------------------------------------------------------------------
\* a stop() that drops the tracked handler tasks
StopDropsTasks(tk) == {}

\* the tracked handler tasks after stop(): it does not touch them
StopTasks(tk) == tk

\* _EventEngine.stop()
Stop ==
    /\ LoopSuspended
    /\ active
    /\ active' = FALSE
    /\ tasks' = StopTasks(tasks)
    /\ UNCHANGED <<qexists, queue, putters, woken, handlers>>
    /\ UNCHANGED loopVars
    /\ UNCHANGED histVars
    /\ UNCHANGED <<regCalls, supVars>>

----------------------------------------------------------------------------
\* _EventEngine.process_event(event)

\* lookup that also collects the handlers of the base classes
LookupWithBases(tbl, t) ==
    LET own == [i \in 1..Len(tbl[t]) |->
                   [key |-> t, slot |-> i, h |-> tbl[t][i]]]
        RECURSIVE Of(_)
        Of(bs) == IF bs = {} THEN <<>>
                  ELSE LET b == CHOOSE x \in bs : TRUE
                       IN  [i \in 1..Len(tbl[b]) |->
                              [key |-> b, slot |-> i, h |-> tbl[b][i]]]
                           \o Of(bs \ {b})
    IN  own \o Of(Bases(t))

\* self._handlers[event[0].__class__]: the entry of exactly that class
Lookup(tbl, t) ==
    [i \in 1..Len(tbl[t]) |-> [key |-> t, slot |-> i, h |-> tbl[t][i]]]

\* handlers awaited one after the other: a raising handler ends the calls
RECURSIVE HandlersUntilFailure(_)
HandlersUntilFailure(regs) ==
    IF regs = <<>> THEN <<>>
    ELSE IF Head(regs).h = "fail" THEN <<Head(regs)>>
    ELSE <<Head(regs)>> \o HandlersUntilFailure(Tail(regs))

\* `for handler in handlers: asyncio.create_task(handler(event))`:
\* every handler of the entry, in order, each in a task of its own
HandlersToRun(regs) == regs

\* the handler calls process_event(batch) makes for the b-th batch
ProcessEvent(tbl, batch, b) ==
    LET regs == HandlersToRun(Lookup(tbl, batch[1].type))
    IN  [i \in 1..Len(regs) |->
            [key |-> regs[i].key, slot |-> regs[i].slot, h |-> regs[i].h,
             batch |-> batch, b |-> b]]

\* process_event for each batch of a list of batches, in order
RECURSIVE ProcessAll(_, _, _)
ProcessAll(tbl, batches, b) ==
    IF batches = <<>> THEN <<>>
    ELSE ProcessEvent(tbl, Head(batches), b + 1)
            \o ProcessAll(tbl, Tail(batches), b + 1)

\* only the task created last is added to the set
TrackedLast(tk, first, last) == IF first <= last THEN tk \cup {last} ELSE tk

\* process_event: self._tasks.add(t) for every task it creates
Tracked(tk, first, last) == tk \cup (first .. last)

\* the loop passes the batches to process_event: the new handler tasks are
\* tracked in self._tasks; the history notes each batch with the number
\* of handlers its class had
Dispatch(batches, rnd, p) ==
    LET calls == ProcessAll(handlers, batches, Len(dispatched))
    IN  /\ invoked' = invoked \o calls
        /\ tstate' = tstate \o [i \in 1..Len(calls) |-> "created"]
        /\ tasks' = Tracked(tasks, Len(invoked) + 1, Len(invoked) + Len(calls))
        /\ dispatched' = dispatched \o
              [i \in 1..Len(batches) |->
                  [batch |-> batches[i], round |-> rnd, path |-> p,
                   regs |-> Len(handlers[batches[i][1].type])]]

----------------------------------------------------------------------------
\* _EventEngine.start()

\* self._queue = Queue(maxsize=10); if self._active: return;
\* self._active = True
Start ==
    /\ pc = "init"
    /\ qexists' = TRUE
    /\ queue' = <<>>
    /\ putters' = <<>>
    /\ woken' = {}
    /\ IF active
       THEN pc' = "exited" /\ UNCHANGED active
       ELSE pc' = "top" /\ active' = TRUE
    /\ UNCHANGED <<handlers, tasks, qsize, got, events>>
    /\ UNCHANGED histVars
    /\ UNCHANGED <<regCalls, supVars>>

\* a further call of start() while the loop of the first one runs:
\* `self._queue = Queue(maxsize=10)` comes before the test of
\* self._active, so the call gives the engine a new, empty queue and then
\* returns.  The loop is suspended in get() of the old queue: if that
\* queue had items, its get() returns the oldest and the rest stays in the
\* old queue; if it was empty, nothing can put into it any more.  The
\* publishers suspended in put() of the old queue stay there
StartAgain ==
    /\ pc = "wait"
    /\ active
    /\ qexists
    /\ queue' = <<>>
    /\ putters' = <<>>
    /\ woken' = {}
    /\ IF Empty(queue)
       THEN pc' = "stale" /\ UNCHANGED events
       ELSE pc' = "woken" /\ events' = << <<GetItem(queue)>> >>
    /\ UNCHANGED <<active, qexists, handlers, tasks, qsize, got>>
    /\ UNCHANGED histVars
    /\ UNCHANGED <<regCalls, supVars>>

\* the get() of the old queue returns its item: process_event([event]),
\* and the loop goes on with the queue self._queue names now
LoopSingleOld ==
    /\ pc = "woken"
    /\ Dispatch(events, round + 1, "single")
    /\ round' = round + 1
    /\ path' = "single"
    /\ mark' = Len(invoked)
    /\ pc' = "top"
    /\ UNCHANGED <<active, qexists, queue, putters, woken, handlers>>
    /\ UNCHANGED <<qsize, got, events>>
    /\ UNCHANGED <<published, enqOrder, pubErrors, qAtSnap, burst>>
    /\ UNCHANGED <<regCalls, supVars>>

\* `while self._active` is false: start() returns
LoopExit ==
    /\ pc = "top"
    /\ Processed
    /\ ~active
    /\ pc' = "exited"
    /\ UNCHANGED engineVars
    /\ UNCHANGED <<qsize, got, events>>
    /\ UNCHANGED histVars
    /\ UNCHANGED <<regCalls, supVars>>

\* `if self._queue.empty(): event = await self._queue.get()`: suspends
LoopAwaitGet ==
    /\ pc = "top"
    /\ Processed
    /\ active
    /\ Empty(queue)
    /\ pc' = "wait"
    /\ UNCHANGED engineVars
    /\ UNCHANGED <<qsize, got, events>>
    /\ UNCHANGED histVars
    /\ UNCHANGED <<regCalls, supVars>>

\* get() returns the oldest item once one was put; process_event([event])
LoopSingle ==
    /\ pc = "wait"
    /\ ~Empty(queue)
    /\ queue' = GetRest(queue)
    /\ woken' = woken \cup WakeupNext(putters)
    /\ putters' = AfterWakeup(putters)
    /\ Dispatch(<< <<GetItem(queue)>> >>, round + 1, "single")
    /\ round' = round + 1
    /\ path' = "single"
    /\ qAtSnap' = queue
    /\ burst' = queue
    /\ mark' = Len(invoked)
    /\ pc' = "top"
    /\ UNCHANGED <<active, qexists, handlers, qsize, got, events>>
    /\ UNCHANGED <<published, enqOrder, pubErrors>>
    /\ UNCHANGED <<regCalls, supVars>>

\* a snapshot that is one short
SnapshotSizeLess(q) == Len(q) - 1

\* self._queue.qsize()
SnapshotSize(q) == Len(q)

\* else-branch: events = defaultdict(list); qsize = self._queue.qsize()
LoopSnapshot ==
    /\ pc = "top"
    /\ Processed
    /\ active
    /\ ~Empty(queue)
    /\ qsize' = SnapshotSize(queue)
    /\ got' = 0
    /\ events' = <<>>
    /\ round' = round + 1
    /\ path' = "drain"
    /\ qAtSnap' = queue
    /\ pc' = "drain"
    /\ UNCHANGED engineVars
    /\ UNCHANGED <<published, enqOrder, invoked, tstate, pubErrors,
                   dispatched, burst, mark>>
    /\ UNCHANGED <<regCalls, supVars>>

\* grouping that ignores the class: one batch for all events
AddToBatchAnyClass(bs, e) ==
    IF bs = <<>> THEN << <<e>> >> ELSE << Append(bs[1], e) >>

\* grouping that puts the new event at the front of its batch
AddToBatchFront(bs, e) ==
    IF \E i \in 1..Len(bs) : bs[i][1].type = e.type
    THEN [i \in 1..Len(bs) |->
            IF bs[i][1].type = e.type THEN <<e>> \o bs[i] ELSE bs[i]]
    ELSE Append(bs, <<e>>)

\* events[event.__class__].append(event): the batch of exactly that
\* class, a new batch after the existing ones for a class not seen yet
AddToBatch(bs, e) ==
    IF \E i \in 1..Len(bs) : bs[i][1].type = e.type
    THEN [i \in 1..Len(bs) |->
            IF bs[i][1].type = e.type THEN Append(bs[i], e) ELSE bs[i]]
    ELSE Append(bs, <<e>>)

\* one iteration of `for _ in range(qsize)`: the queue is not empty, so
\* get() returns at once
LoopGet ==
    /\ pc = "drain"
    /\ got < qsize
    /\ ~Empty(queue)
    /\ events' = AddToBatch(events, GetItem(queue))
    /\ queue' = GetRest(queue)
    /\ woken' = woken \cup WakeupNext(putters)
    /\ putters' = AfterWakeup(putters)
    /\ got' = got + 1
    /\ UNCHANGED <<active, qexists, handlers, tasks, pc, qsize>>
    /\ UNCHANGED histVars
    /\ UNCHANGED <<regCalls, supVars>>

\* `for each in events.values(): self.process_event(each)`
LoopDispatch ==
    /\ pc = "drain"
    /\ got = qsize
    /\ Dispatch(events, round, "drain")
    /\ pc' = "top"
    /\ UNCHANGED <<active, qexists, queue, putters, woken, handlers>>
    /\ UNCHANGED <<qsize, got, events>>
    /\ UNCHANGED <<published, enqOrder, pubErrors, round, path, qAtSnap,
                   burst, mark>>
    /\ UNCHANGED <<regCalls, supVars>>

----------------------------------------------------------------------------
\* the handler tasks created by process_event

\* the task whose first step the scheduler runs next: tasks start in the
\* order create_task was called
NextTask(n) ==
    /\ n \in 1..Len(invoked)
    /\ tstate[n] = "created"
    /\ \A m \in 1..(n - 1) : tstate[m] # "created"

\* a handler that returns normally
RunCount(n) ==
    /\ LoopSuspended
    /\ NextTask(n)
    /\ invoked[n].h = "count"
    /\ tstate' = Finish(tstate, tasks, n, "ok")[1]
    /\ tasks' = Finish(tstate, tasks, n, "ok")[2]
    /\ UNCHANGED <<active, qexists, queue, putters, woken, handlers>>
    /\ UNCHANGED loopVars
    /\ UNCHANGED <<published, enqOrder, invoked, pubErrors, dispatched, round,
                   path, qAtSnap, burst, mark>>
    /\ UNCHANGED <<regCalls, supVars>>

\* a handler that raises: the exception stays in its task
RunFail(n) ==
    /\ LoopSuspended
    /\ NextTask(n)
    /\ invoked[n].h = "fail"
    /\ tstate' = Finish(tstate, tasks, n, "exc")[1]
    /\ tasks' = Finish(tstate, tasks, n, "exc")[2]
    /\ UNCHANGED <<active, qexists, queue, putters, woken, handlers>>
    /\ UNCHANGED loopVars
    /\ UNCHANGED <<published, enqOrder, invoked, pubErrors, dispatched, round,
                   path, qAtSnap, burst, mark>>
    /\ UNCHANGED <<regCalls, supVars>>

\* a handler that publishes a further event and returns
RunRelay(n, t, d) ==
    /\ LoopSuspended
    /\ NextTask(n)
    /\ invoked[n].h = "relay"
    /\ PubEvent(NewEvent(Len(published) + 1, t, d), n)
    /\ IF Full(queue)
       THEN /\ tstate' = [tstate EXCEPT ![n] = "blocked"]
            /\ UNCHANGED tasks
       ELSE /\ tstate' = Finish(tstate, tasks, n, "ok")[1]
            /\ tasks' = Finish(tstate, tasks, n, "ok")[2]
    /\ UNCHANGED <<active, qexists, woken, handlers>>
    /\ UNCHANGED loopVars
    /\ UNCHANGED <<invoked, dispatched, round, path, qAtSnap,
                   burst, mark>>
    /\ UNCHANGED <<regCalls, supVars>>

\* a handler that is a plain function: wrapped_func of @on_event hands
\* it to a thread and awaits the result
RunBlock(n) ==
    /\ LoopSuspended
    /\ NextTask(n)
    /\ invoked[n].h = "block"
    /\ tstate' = [tstate EXCEPT ![n] =
                     IF Offloaded(TRUE) THEN "thread" ELSE "called"]
    /\ onLoop' = IF Offloaded(TRUE) THEN onLoop ELSE onLoop \cup {"block"}
    /\ UNCHANGED <<active, qexists, queue, putters, woken, handlers, tasks>>
    /\ UNCHANGED loopVars
    /\ UNCHANGED <<published, enqOrder, invoked, pubErrors, dispatched, round,
                   path, qAtSnap, burst, mark>>
    /\ UNCHANGED <<regCalls, spc, why, sres, hook, exits, timer, worker,
                   afterFail, rpc, cbs, rtasks>>
    /\ UNCHANGED <<interval, launched, tth>>
    /\ UNCHANGED attachVars
    /\ UNCHANGED exitVars

\* the plain function returns or raises in its thread: its task ends with
\* that result
BlockEnd(n, res) ==
    /\ LoopSuspended
    /\ n \in 1..Len(invoked)
    /\ tstate[n] = "thread"
    /\ tstate' = Finish(tstate, tasks, n, res)[1]
    /\ tasks' = Finish(tstate, tasks, n, res)[2]
    /\ UNCHANGED <<active, qexists, queue, putters, woken, handlers>>
    /\ UNCHANGED loopVars
    /\ UNCHANGED <<published, enqOrder, invoked, pubErrors, dispatched, round,
                   path, qAtSnap, burst, mark>>
    /\ UNCHANGED <<regCalls, supVars>>

\* a handler task ends with a result or an exception: asyncio schedules
\* its done callbacks, the set still holds the task
TaskEnds(n, res) ==
    /\ tstate' = [tstate EXCEPT ![n] = res]
    /\ UNCHANGED <<active, qexists, queue, putters, woken, handlers, tasks>>
    /\ UNCHANGED loopVars
    /\ UNCHANGED <<published, enqOrder, invoked, pubErrors, dispatched, round,
                   path, qAtSnap, burst, mark>>
    /\ UNCHANGED <<regCalls, supVars>>

\* a handler that returns normally, up to the end of its task
CountDone(n) ==
    /\ LoopSuspended
    /\ NextTask(n)
    /\ invoked[n].h = "count"
    /\ TaskEnds(n, "ok")

\* a handler that raises, up to the end of its task
FailDone(n) ==
    /\ LoopSuspended
    /\ NextTask(n)
    /\ invoked[n].h = "fail"
    /\ TaskEnds(n, "exc")

\* the plain function returns or raises in its thread and its task ends
BlockDone(n, res) ==
    /\ LoopSuspended
    /\ n \in 1..Len(invoked)
    /\ tstate[n] = "thread"
    /\ TaskEnds(n, res)

\* the done callback of a task that has ended: self._tasks.discard
Discard(n) ==
    /\ LoopSuspended
    /\ n \in tasks
    /\ tstate[n] \in {"ok", "exc"}
    /\ tasks' = tasks \ {n}
    /\ UNCHANGED <<active, qexists, queue, putters, woken, handlers>>
    /\ UNCHANGED loopVars
    /\ UNCHANGED <<published, enqOrder, invoked, tstate, pubErrors,
                   dispatched, round, path, qAtSnap, burst, mark>>
    /\ UNCHANGED <<regCalls, supVars>>

----------------------------------------------------------------------------
\* pub_event calls made so far
Calls == Len(published) + pubErrors

\* number of handlers in the table
RECURSIVE Registered(_, _)
Registered(tbl, ts) ==
    IF ts = {} THEN 0
    ELSE LET t == CHOOSE x \in ts : TRUE
         IN  Len(tbl[t]) + Registered(tbl, ts \ {t})

\* the handler lists one register_handler call passes; each class gets
\* its handlers in one call
HandlerLists == {<<"count">>, <<"fail">>, <<"fail", "count">>}

Register ==
    \E t \in EventTypes, hs \in HandlerLists :
        /\ Registered(handlers, EventTypes) + Len(hs) <= MaxHandlers
        /\ handlers[t] = <<>>
        /\ RegisterHandler(t, hs)

Publisher ==
    \E t \in EventTypes, d \in Payloads : Calls < MaxPublish /\ Publish(t, d)

Loop ==
    \/ Start
    \/ LoopAwaitGet
    \/ LoopSingle
    \/ LoopSnapshot
    \/ LoopGet
    \/ LoopDispatch

Handler ==
    \/ \E n \in 1..Len(invoked) : RunCount(n)
    \/ \E n \in 1..Len(invoked) : RunFail(n)

\* the engine with handlers of two event classes, never stopped
Next == Register \/ Publisher \/ Loop \/ Handler

Spec == Init /\ [][Next]_vars

----------------------------------------------------------------------------
\* the engine under load: handlers are registered before start(), then
\* events of one class are published by coroutines outside the engine and
\* by a handler, until publishers wait on the full queue

RegisterFull ==
    \E h \in {"count", "relay"} :
        /\ Registered(handlers, EventTypes) = 0
        /\ pc = "init"
        /\ RegisterHandler("A", <<h>>)

PublisherFull ==
    \/ Calls < MaxPublishFull /\ qexists /\ Publish("A", 1)
    \/ \E p \in woken : ResumePut(p)

HandlerFull ==
    \/ \E n \in 1..Len(invoked) : RunCount(n)
    \/ \E n \in 1..Len(invoked) : Calls < MaxPublishFull /\ RunRelay(n, "A", 1)

NextFull == RegisterFull \/ PublisherFull \/ Loop \/ HandlerFull

SpecFull == Init /\ [][NextFull]_vars

\* the loaded engine whose one handler publishes a further event, under
\* the scheduler of asyncio, which runs every coroutine that is ready: the
\* loop, and a publisher whose wait in put() was ended
RegisterLive ==
    /\ Registered(handlers, EventTypes) = 0
    /\ pc = "init"
    /\ RegisterHandler("A", <<"relay">>)

Resumed == \E p \in woken : ResumePut(p)

PublisherLive ==
    \/ Calls < MaxPublishLive /\ qexists /\ Publish("A", 1)
    \/ Resumed

HandlerLive ==
    \E n \in 1..Len(invoked) : Calls < MaxPublishLive /\ RunRelay(n, "A", 1)

NextLive == RegisterLive \/ PublisherLive \/ Loop \/ HandlerLive

SpecLive ==
    /\ Init
    /\ [][NextLive]_vars
    /\ WF_vars(Loop)
    /\ WF_vars(Resumed)

----------------------------------------------------------------------------
\* the engine when register_handler is called several times: for a class
\* that has handlers already, with a handler that is registered already,
\* before and after start()

\* register_handler calls made so far
RECURSIVE RegisterCalls(_)
RegisterCalls(ts) ==
    IF ts = {} THEN 0
    ELSE LET t == CHOOSE x \in ts : TRUE
         IN  Len(regCalls[t]) + RegisterCalls(ts \ {t})

RegisterAgain ==
    \E t \in EventTypes, hs \in {<<"count">>, <<"fail", "count">>} :
        /\ RegisterCalls(EventTypes) < MaxRegister
        /\ RegisterHandler(t, hs)

PublisherReg ==
    \E t \in EventTypes, d \in Payloads :
        Calls < MaxPublishReg /\ qexists /\ Publish(t, d)

NextReg == RegisterAgain \/ PublisherReg \/ Loop \/ Handler

SpecReg == Init /\ [][NextReg]_vars

----------------------------------------------------------------------------
\* the engine that is stopped: stop() is called by a coroutine that runs
\* while the loop is suspended; the scheduler runs the loop whenever it is
\* ready, and nothing obliges anyone to publish

RegisterStop ==
    \E t \in EventTypes :
        /\ pc = "init"
        /\ handlers[t] = <<>>
        /\ RegisterHandler(t, <<"count">>)

PublisherStop ==
    \E t \in EventTypes, d \in Payloads :
        Calls < MaxPublishStop /\ qexists /\ Publish(t, d)

LoopStop == Loop \/ LoopExit

HandlerStop == \E n \in 1..Len(invoked) : RunCount(n)

NextStop == RegisterStop \/ PublisherStop \/ Stop \/ LoopStop \/ HandlerStop

SpecStop == Init /\ [][NextStop]_vars /\ WF_vars(LoopStop)

----------------------------------------------------------------------------
\* _AppRunner: the start() of an application, its hooks, timers and
\* background tasks.  They are coroutines of the same scheduler: each
\* action is the run of one of them from one suspension point to the next.

\* the variables of the dispatch engine
eventVars == <<engineVars, loopVars, histVars, regCalls>>

\* build_schedule_tasks / build_background_tasks of application a
TimersOf(a) == {t \in Timers : TimerApp(t) = a}
WorkersOf(a) == {BackgroundTasks(a)[i] : i \in 1..Len(BackgroundTasks(a))}

\* a timer or background task of the application has raised
Failed(a) ==
    \/ \E t \in TimersOf(a) : timer[t].pc \in {"failed", "raised"}
    \/ \E w \in WorkersOf(a) : worker[w].co = "raised"

\* history: task x of application a takes a step
NoteStep(a, x) ==
    afterFail' = IF Failed(a) THEN afterFail \cup {x} ELSE afterFail

\* a start() that gathers the hook, the timers and the tasks together
GatherMembersAll(a, stage) == TimersOf(a) \cup WorkersOf(a)

\* the timers and tasks each gather of start() wraps in tasks: none with
\* the hook, get_all_tasks() in the second one
GatherMembers(a, stage) ==
    IF stage = "phase" THEN TimersOf(a) \cup WorkersOf(a) ELSE {}

\* asyncio.gather wraps each coroutine in a task; none has run yet
LaunchTimers(S) ==
    [t \in Timers |-> IF t \in S /\ timer[t].pc = "none"
                      THEN [timer[t] EXCEPT !.pc = "created"] ELSE timer[t]]
LaunchWorkers(S) ==
    [w \in Workers |-> IF w \in S /\ worker[w].co = "none"
                       THEN [worker[w] EXCEPT !.co = "created"] ELSE worker[w]]

\* history: one more task for each coroutine passed to the gather
NoteLaunched(S) ==
    [x \in Timers \cup Workers |->
        IF x \in S THEN launched[x] + 1 ELSE launched[x]]

\* first step of start(): try: await asyncio.gather(before_start task)
AppRunnerStart(a) ==
    /\ LoopSuspended
    /\ spc[a] = "none"
    /\ spc' = [spc EXCEPT ![a] = "hook"]
    /\ hook' = [hook EXCEPT ![a] = "created"]
    /\ timer' = LaunchTimers(GatherMembers(a, "hook"))
    /\ worker' = LaunchWorkers(GatherMembers(a, "hook"))
    /\ UNCHANGED <<why, sres, exits, afterFail, rpc, cbs, rtasks>>
    /\ UNCHANGED eventVars
    /\ UNCHANGED attachVars
    /\ launched' = NoteLaunched(GatherMembers(a, "hook"))
    /\ UNCHANGED <<interval, onLoop, tth>>
    /\ UNCHANGED exitVars

\* Application.before_start(): runs to a suspension point of its own
BeforeStartStep(a) ==
    /\ LoopSuspended
    /\ hook[a] = "created"
    /\ hook' = [hook EXCEPT ![a] = "running"]
    /\ UNCHANGED <<spc, why, sres, exits, timer, worker, afterFail, rpc, cbs,
                   rtasks>>
    /\ UNCHANGED eventVars
    /\ UNCHANGED attachVars
    /\ UNCHANGED taskVars
    /\ UNCHANGED exitVars

\* before_start() returns
BeforeStartReturn(a) ==
    /\ LoopSuspended
    /\ hook[a] = "running"
    /\ hook' = [hook EXCEPT ![a] = "done"]
    /\ UNCHANGED <<spc, why, sres, exits, timer, worker, afterFail, rpc, cbs,
                   rtasks>>
    /\ UNCHANGED eventVars
    /\ UNCHANGED attachVars
    /\ UNCHANGED taskVars
    /\ UNCHANGED exitVars

\* before_start() raises
BeforeStartRaise(a) ==
    /\ LoopSuspended
    /\ hook[a] = "running"
    /\ hook' = [hook EXCEPT ![a] = "raised"]
    /\ UNCHANGED <<spc, why, sres, exits, timer, worker, afterFail, rpc, cbs,
                   rtasks>>
    /\ UNCHANGED eventVars
    /\ UNCHANGED attachVars
    /\ UNCHANGED taskVars
    /\ UNCHANGED exitVars

\* a start() whose exit() call is skipped by a cancellation
RunsFinallyUnlessCancelled(y) == y # "cancelled"

\* `finally: await self._app.exit()`: however the try block ended
RunsFinally(y) == TRUE

\* a start() without `except Exception`
StartResultNoExcept(y) == y

\* what start() ends with when its try block ended with y: an Exception is
\* caught and logged, a CancelledError is not an Exception and goes on
StartResult(y) == IF y = "cancelled" THEN "cancelled" ELSE "returned"

\* the try block of start() ends with y: the finally clause calls exit()
EndTry(a, y) ==
    /\ why' = [why EXCEPT ![a] = y]
    /\ IF RunsFinally(y)
       THEN /\ spc' = [spc EXCEPT ![a] = "exit"]
            /\ exits' = [exits EXCEPT ![a] = @ + 1]
            /\ UNCHANGED sres
       ELSE /\ spc' = [spc EXCEPT ![a] = "done"]
            /\ sres' = [sres EXCEPT ![a] = StartResult(y)]
            /\ UNCHANGED exits

\* the hook has returned: await asyncio.gather(*self.get_all_tasks())
StartTasks(a) ==
    /\ LoopSuspended
    /\ spc[a] = "hook"
    /\ hook[a] = "done"
    /\ spc' = [spc EXCEPT ![a] = "phase"]
    /\ timer' = LaunchTimers(GatherMembers(a, "phase"))
    /\ worker' = LaunchWorkers(GatherMembers(a, "phase"))
    /\ UNCHANGED <<why, sres, hook, exits, afterFail, rpc, cbs, rtasks>>
    /\ UNCHANGED eventVars
    /\ UNCHANGED attachVars
    /\ launched' = NoteLaunched(GatherMembers(a, "phase"))
    /\ UNCHANGED <<interval, onLoop, tth>>
    /\ UNCHANGED exitVars

\* the hook has raised: the first gather raises in start()
HookRaised(a) ==
    /\ LoopSuspended
    /\ spc[a] = "hook"
    /\ hook[a] = "raised"
    /\ EndTry(a, "raised")
    /\ UNCHANGED <<hook, timer, worker, afterFail, rpc, cbs, rtasks>>
    /\ UNCHANGED eventVars
    /\ UNCHANGED attachVars
    /\ UNCHANGED taskVars
    /\ UNCHANGED exitVars

\* the second gather is done: a member has raised, or all have finished
GatherRaised(a) ==
    \/ \E t \in TimersOf(a) : timer[t].pc = "raised"
    \/ \E w \in WorkersOf(a) : worker[w].co = "raised"
GatherReturned(a) ==
    /\ \A t \in TimersOf(a) : timer[t].pc = "failed"
    /\ \A w \in WorkersOf(a) : worker[w].co = "returned"

\* every timer and task has returned: the second gather returns
PhaseReturned(a) ==
    /\ LoopSuspended
    /\ spc[a] = "phase"
    /\ GatherReturned(a)
    /\ EndTry(a, "returned")
    /\ UNCHANGED <<hook, timer, worker, afterFail, rpc, cbs, rtasks>>
    /\ UNCHANGED eventVars
    /\ UNCHANGED attachVars
    /\ UNCHANGED taskVars
    /\ UNCHANGED exitVars

\* a timer or task has raised: the second gather raises its exception at
\* once, whatever the other members do
PhaseRaised(a) ==
    /\ LoopSuspended
    /\ spc[a] = "phase"
    /\ GatherRaised(a)
    /\ EndTry(a, "raised")
    /\ UNCHANGED <<hook, timer, worker, afterFail, rpc, cbs, rtasks>>
    /\ UNCHANGED eventVars
    /\ UNCHANGED attachVars
    /\ UNCHANGED taskVars
    /\ UNCHANGED exitVars

\* Application.exit() returns, and start() ends
ExitReturn(a) ==
    /\ LoopSuspended
    /\ spc[a] = "exit"
    /\ spc' = [spc EXCEPT ![a] = "done"]
    /\ sres' = [sres EXCEPT ![a] = StartResult(why[a])]
    /\ UNCHANGED <<why, hook, exits, timer, worker, afterFail, rpc, cbs,
                   rtasks>>
    /\ UNCHANGED eventVars
    /\ UNCHANGED attachVars
    /\ UNCHANGED taskVars
    /\ UNCHANGED exitVars

\* Application.exit() raises: the exception leaves start() from its finally
\* clause
ExitRaise(a) ==
    /\ LoopSuspended
    /\ spc[a] = "exit"
    /\ spc' = [spc EXCEPT ![a] = "done"]
    /\ sres' = [sres EXCEPT ![a] = "raised"]
    /\ UNCHANGED <<why, hook, exits, timer, worker, afterFail, rpc, cbs,
                   rtasks>>
    /\ UNCHANGED eventVars
    /\ UNCHANGED attachVars
    /\ UNCHANGED taskVars
    /\ UNCHANGED exitVars

----------------------------------------------------------------------------
\* cancellation of start(): Task.cancel() on the task that runs it

\* a timer is cancelled where it is suspended: build_timer catches the
\* CancelledError, logs a warning and returns
CancelTimer(t) ==
    IF timer[t].pc \in {"created", "call", "sleep"}
    THEN [timer[t] EXCEPT !.pc = "cancelled"] ELSE timer[t]

\* a background task is cancelled where it is suspended; the thread of
\* asyncio.to_thread is not stopped by that
CancelWorker(w) ==
    IF worker[w].co \in {"created", "running"}
    THEN [worker[w] EXCEPT !.co = "cancelled"] ELSE worker[w]

\* start() of a waits in a gather that is not done: the cancellation goes
\* to the members of that gather
InHook(a) == spc[a] = "hook" /\ hook[a] \in {"created", "running"}
InPhase(a) == spc[a] = "phase" /\ ~GatherRaised(a) /\ ~GatherReturned(a)

\* the start() tasks of the applications in S are cancelled: a task that
\* has not run yet never runs; a start() inside its try block gets the
\* CancelledError there and goes to its finally clause; a start() that
\* awaits exit() is interrupted in it
CancelStart(S) ==
    /\ spc' = [a \in Apps |->
                 IF a \notin S THEN spc[a]
                 ELSE IF spc[a] = "none" THEN "unstarted"
                 ELSE IF spc[a] \in {"hook", "phase"}
                 THEN IF RunsFinally("cancelled") THEN "exit" ELSE "done"
                 ELSE IF spc[a] = "exit" THEN "done"
                 ELSE spc[a]]
    /\ why' = [a \in Apps |->
                 IF a \in S /\ spc[a] \in {"hook", "phase"}
                 THEN "cancelled" ELSE why[a]]
    /\ exits' = [a \in Apps |->
                   IF /\ a \in S
                      /\ spc[a] \in {"hook", "phase"}
                      /\ RunsFinally("cancelled")
                   THEN exits[a] + 1 ELSE exits[a]]
    /\ sres' = [a \in Apps |->
                  IF /\ a \in S
                     /\ \/ spc[a] \in {"none", "exit"}
                        \/ /\ spc[a] \in {"hook", "phase"}
                           /\ ~RunsFinally("cancelled")
                  THEN "cancelled" ELSE sres[a]]
    /\ hook' = [a \in Apps |->
                  IF a \in S /\ InHook(a) THEN "cancelled" ELSE hook[a]]
    /\ timer' = [t \in Timers |->
                   IF TimerApp(t) \in S /\ InPhase(TimerApp(t))
                   THEN CancelTimer(t) ELSE timer[t]]
    /\ worker' = [w \in Workers |->
                    IF WorkerApp(w) \in S /\ InPhase(WorkerApp(w))
                    THEN CancelWorker(w) ELSE worker[w]]

\* the task of a start() that was called on its own is cancelled
CancelApp(a) ==
    /\ LoopSuspended
    /\ spc[a] \in {"hook", "phase", "exit"}
    /\ CancelStart({a})
    /\ UNCHANGED <<afterFail, rpc, cbs, rtasks>>
    /\ UNCHANGED eventVars
    /\ UNCHANGED attachVars
    /\ UNCHANGED taskVars
    /\ UNCHANGED exitVars

----------------------------------------------------------------------------
\* _AppRunner.build_timer

\* a timer that calls at once whatever run_at_once says
FirstTimerStepAlways(r) == "call"

\* `if timer_detail.run_at_once: await call()`, else the first thing is
\* `await asyncio.sleep(timer_detail.interval)`
FirstTimerStep(r) == IF r THEN "call" ELSE "sleep"

\* a build_timer without `except Exception`
TimerOnExceptionRaise == "raised"

\* `except Exception as e: logger.exception(e)`: build_timer returns
TimerOnException == "failed"

\* call() awaits the wrapped method: a plain function is handed to a
\* thread, anything else runs in the coroutine
CallThread(t) ==
    IF PlainTimer(t) /\ Offloaded(PlainTimer(t)) THEN "running" ELSE "none"
CallOnLoop(t) ==
    IF PlainTimer(t) /\ ~Offloaded(PlainTimer(t))
    THEN onLoop \cup {t} ELSE onLoop

\* a build_timer that calls again as soon as a call has returned
AfterCallAgain == "call"

\* `while True: await asyncio.sleep(timer_detail.interval); await call()`:
\* after a call the timer sleeps
AfterCall == "sleep"

\* first step of the timer task
TimerFirst(t) ==
    /\ LoopSuspended
    /\ timer[t].pc = "created"
    /\ timer' = [timer EXCEPT ![t] =
                    [pc |-> FirstTimerStep(RunAtOnce(t)),
                     calls |-> IF FirstTimerStep(RunAtOnce(t)) = "call"
                               THEN 1 ELSE 0,
                     sleeps |-> 0]]
    /\ NoteStep(TimerApp(t), t)
    /\ UNCHANGED <<spc, why, sres, hook, exits, worker, rpc, cbs, rtasks>>
    /\ UNCHANGED eventVars
    /\ UNCHANGED attachVars
    /\ tth' = [tth EXCEPT ![t] =
                  IF FirstTimerStep(RunAtOnce(t)) = "call"
                  THEN CallThread(t) ELSE @]
    /\ onLoop' = IF FirstTimerStep(RunAtOnce(t)) = "call"
                 THEN CallOnLoop(t) ELSE onLoop
    /\ UNCHANGED <<interval, launched>>
    /\ UNCHANGED exitVars

\* asyncio.sleep(interval) is over: await call()
TimerWake(t) ==
    /\ LoopSuspended
    /\ timer[t].pc = "sleep"
    /\ timer[t].calls < MaxTicks
    /\ timer' = [timer EXCEPT ![t] =
                    [pc |-> "call", calls |-> @.calls + 1,
                     sleeps |-> @.sleeps + 1]]
    /\ NoteStep(TimerApp(t), t)
    /\ UNCHANGED <<spc, why, sres, hook, exits, worker, rpc, cbs, rtasks>>
    /\ UNCHANGED eventVars
    /\ UNCHANGED attachVars
    /\ tth' = [tth EXCEPT ![t] = CallThread(t)]
    /\ onLoop' = CallOnLoop(t)
    /\ UNCHANGED <<interval, launched>>
    /\ UNCHANGED exitVars

\* the callback returns: back to `await asyncio.sleep(interval)`
TimerCallReturn(t) ==
    /\ LoopSuspended
    /\ timer[t].pc = "call"
    /\ tth[t] \in {"none", "returned"}
    /\ AfterCall = "call" => timer[t].calls < MaxTicks
    /\ timer' = [timer EXCEPT ![t] =
                    [pc |-> AfterCall,
                     calls |-> IF AfterCall = "call"
                               THEN @.calls + 1 ELSE @.calls,
                     sleeps |-> @.sleeps]]
    /\ NoteStep(TimerApp(t), t)
    /\ UNCHANGED <<spc, why, sres, hook, exits, worker, rpc, cbs, rtasks>>
    /\ UNCHANGED eventVars
    /\ UNCHANGED attachVars
    /\ tth' = [tth EXCEPT ![t] =
                  IF AfterCall = "call" THEN CallThread(t) ELSE "none"]
    /\ UNCHANGED <<interval, launched, onLoop>>
    /\ UNCHANGED exitVars

\* the callback raises an Exception
TimerCallRaise(t) ==
    /\ LoopSuspended
    /\ timer[t].pc = "call"
    /\ tth[t] \in {"none", "raised"}
    /\ timer' = [timer EXCEPT ![t].pc = TimerOnException]
    /\ NoteStep(TimerApp(t), t)
    /\ UNCHANGED <<spc, why, sres, hook, exits, worker, rpc, cbs, rtasks>>
    /\ UNCHANGED eventVars
    /\ UNCHANGED attachVars
    /\ tth' = [tth EXCEPT ![t] = "none"]
    /\ UNCHANGED <<interval, launched, onLoop>>
    /\ UNCHANGED exitVars

\* the plain function of a timer returns or raises in its thread; the
\* thread runs on when the timer task was cancelled meanwhile
TimerThreadEnd(t, res) ==
    /\ LoopSuspended
    /\ tth[t] = "running"
    /\ tth' = [tth EXCEPT ![t] = res]
    /\ UNCHANGED <<spc, why, sres, hook, exits, timer, worker, afterFail, rpc,
                   cbs, rtasks>>
    /\ UNCHANGED <<interval, launched, onLoop>>
    /\ UNCHANGED eventVars
    /\ UNCHANGED attachVars
    /\ UNCHANGED exitVars

----------------------------------------------------------------------------
\* background tasks (@task): a coroutine function runs as a coroutine, a
\* plain function runs in a thread while its coroutine awaits the result

\* a gather that cancels the other members when one raises
GatherCancelSiblings(ts, a) ==
    [t \in Timers |->
        IF TimerApp(t) = a /\ ts[t].pc \in {"created", "call", "sleep"}
        THEN [ts[t] EXCEPT !.pc = "cancelled"] ELSE ts[t]]

\* asyncio.gather without return_exceptions leaves the other members alone
\* when one raises
GatherOnException(ts, a) == ts

\* first step of the task: the body runs to its first suspension point, or
\* hands the function to a thread and awaits it
WorkerFirst(w) ==
    /\ LoopSuspended
    /\ worker[w].co = "created"
    /\ worker' = [worker EXCEPT ![w] =
                     [co |-> "running",
                      th |-> IF Blocking(w) /\ Offloaded(Blocking(w))
                             THEN "running" ELSE "none",
                      steps |-> 0]]
    /\ NoteStep(WorkerApp(w), w)
    /\ UNCHANGED <<spc, why, sres, hook, exits, timer, rpc, cbs, rtasks>>
    /\ UNCHANGED eventVars
    /\ UNCHANGED attachVars
    /\ onLoop' = IF Blocking(w) /\ ~Offloaded(Blocking(w))
                 THEN onLoop \cup {w} ELSE onLoop
    /\ UNCHANGED <<interval, launched, tth>>
    /\ UNCHANGED exitVars

\* the body of a coroutine task runs from one suspension point to the next
WorkerStep(w) ==
    /\ LoopSuspended
    /\ ~Blocking(w)
    /\ worker[w].co = "running"
    /\ worker[w].steps < MaxSteps
    /\ worker' = [worker EXCEPT ![w].steps = @ + 1]
    /\ NoteStep(WorkerApp(w), w)
    /\ UNCHANGED <<spc, why, sres, hook, exits, timer, rpc, cbs, rtasks>>
    /\ UNCHANGED eventVars
    /\ UNCHANGED attachVars
    /\ UNCHANGED taskVars
    /\ UNCHANGED exitVars

\* the body of a coroutine task returns
WorkerReturn(w) ==
    /\ LoopSuspended
    /\ ~Blocking(w)
    /\ worker[w].co = "running"
    /\ worker' = [worker EXCEPT ![w].co = "returned"]
    /\ NoteStep(WorkerApp(w), w)
    /\ UNCHANGED <<spc, why, sres, hook, exits, timer, rpc, cbs, rtasks>>
    /\ UNCHANGED eventVars
    /\ UNCHANGED attachVars
    /\ UNCHANGED taskVars
    /\ UNCHANGED exitVars

\* the body of a coroutine task raises an Exception
WorkerRaise(w) ==
    /\ LoopSuspended
    /\ ~Blocking(w)
    /\ worker[w].co = "running"
    /\ worker' = [worker EXCEPT ![w].co = "raised"]
    /\ timer' = GatherOnException(timer, WorkerApp(w))
    /\ NoteStep(WorkerApp(w), w)
    /\ UNCHANGED <<spc, why, sres, hook, exits, rpc, cbs, rtasks>>
    /\ UNCHANGED eventVars
    /\ UNCHANGED attachVars
    /\ UNCHANGED taskVars
    /\ UNCHANGED exitVars

\* the function runs on in its thread, whatever became of the coroutine
\* that awaited it
ThreadStep(w) ==
    /\ LoopSuspended
    /\ worker[w].th = "running"
    /\ worker[w].steps < MaxSteps
    /\ worker' = [worker EXCEPT ![w].steps = @ + 1]
    /\ NoteStep(WorkerApp(w), w)
    /\ UNCHANGED <<spc, why, sres, hook, exits, timer, rpc, cbs, rtasks>>
    /\ UNCHANGED eventVars
    /\ UNCHANGED attachVars
    /\ UNCHANGED taskVars
    /\ UNCHANGED exitVars

\* the function returns or raises in its thread: the result goes to the
\* coroutine if it still awaits it
ThreadEnd(w, res) ==
    /\ LoopSuspended
    /\ worker[w].th = "running"
    /\ worker' = [worker EXCEPT ![w].th = res,
                                ![w].co = IF @ = "running" THEN res ELSE @]
    /\ NoteStep(WorkerApp(w), w)
    /\ UNCHANGED <<spc, why, sres, hook, exits, timer, rpc, cbs, rtasks>>
    /\ UNCHANGED eventVars
    /\ UNCHANGED attachVars
    /\ UNCHANGED taskVars
    /\ UNCHANGED exitVars

----------------------------------------------------------------------------
\* the steps of the applications in S, by kind

Hooks(S) ==
    \/ \E a \in S : BeforeStartStep(a)
    \/ \E a \in S : BeforeStartReturn(a)
    \/ \E a \in S : BeforeStartRaise(a)

Phases(S) ==
    \/ \E a \in S : StartTasks(a)
    \/ \E a \in S : HookRaised(a)
    \/ \E a \in S : PhaseReturned(a)
    \/ \E a \in S : PhaseRaised(a)
    \/ \E a \in S : ExitReturn(a)

TimerTasks(S) ==
    \/ \E t \in Timers : TimerApp(t) \in S /\ TimerFirst(t)
    \/ \E t \in Timers : TimerApp(t) \in S /\ TimerWake(t)
    \/ \E t \in Timers : TimerApp(t) \in S /\ TimerCallReturn(t)
    \/ \E t \in Timers : TimerApp(t) \in S /\ TimerCallRaise(t)

TimerThreads(S) ==
    \/ \E t \in Timers : TimerApp(t) \in S /\ TimerThreadEnd(t, "returned")
    \/ \E t \in Timers : TimerApp(t) \in S /\ TimerThreadEnd(t, "raised")

CoroutineTasks(S) ==
    \/ \E w \in Workers : WorkerApp(w) \in S /\ WorkerStep(w)
    \/ \E w \in Workers : WorkerApp(w) \in S /\ WorkerReturn(w)
    \/ \E w \in Workers : WorkerApp(w) \in S /\ WorkerRaise(w)

ThreadTasks(S) ==
    \/ \E w \in Workers : WorkerApp(w) \in S /\ WorkerFirst(w)
    \/ \E w \in Workers : WorkerApp(w) \in S /\ ThreadStep(w)
    \/ \E w \in Workers : WorkerApp(w) \in S /\ ThreadEnd(w, "returned")
    \/ \E w \in Workers : WorkerApp(w) \in S /\ ThreadEnd(w, "raised")

----------------------------------------------------------------------------
\* one application with two timers, a coroutine task and a thread task,
\* whose start() is called on its own and may be cancelled

NextApp ==
    \/ AppRunnerStart("sched")
    \/ Hooks({"sched"})
    \/ Phases({"sched"})
    \/ TimerTasks({"sched"})
    \/ CoroutineTasks({"sched"})
    \/ ThreadTasks({"sched"})
    \/ CancelApp("sched")

SpecApp == Init /\ [][NextApp]_vars

----------------------------------------------------------------------------
\* AppEngine.run(): the engine-level before_start callbacks, then the
\* dispatch loop and the start() of every attached application

\* a run() that gathers the callbacks and the tasks together
RunMembersAll(stage) == {"engine"} \cup RunApps

\* the tasks of build_tasks() each gather of run() wraps in tasks: none
\* with the callbacks, all of them in the second one
RunMembers(stage) ==
    IF stage = "concurrent" THEN {"engine"} \cup RunApps ELSE {}

\* first step of run(): the coroutines of the callbacks and of
\* build_tasks() are made, then await asyncio.gather(*before_start_tasks)
Run ==
    /\ LoopSuspended
    /\ rpc = "none"
    /\ rpc' = "startup"
    /\ cbs' = [c \in Callbacks |-> "created"]
    /\ rtasks' = RunMembers("startup")
    /\ UNCHANGED <<spc, why, sres, hook, exits, timer, worker, afterFail>>
    /\ UNCHANGED eventVars
    /\ UNCHANGED attachVars
    /\ UNCHANGED taskVars
    /\ UNCHANGED exitVars

\* a before_start callback runs to a suspension point of its own
CallbackStep(c) ==
    /\ LoopSuspended
    /\ cbs[c] = "created"
    /\ cbs' = [cbs EXCEPT ![c] = "running"]
    /\ UNCHANGED <<spc, why, sres, hook, exits, timer, worker, afterFail,
                   rpc, rtasks>>
    /\ UNCHANGED eventVars
    /\ UNCHANGED attachVars
    /\ UNCHANGED taskVars
    /\ UNCHANGED exitVars

\* the callback returns or raises
CallbackEnd(c, res) ==
    /\ LoopSuspended
    /\ cbs[c] = "running"
    /\ cbs' = [cbs EXCEPT ![c] = res]
    /\ UNCHANGED <<spc, why, sres, hook, exits, timer, worker, afterFail,
                   rpc, rtasks>>
    /\ UNCHANGED eventVars
    /\ UNCHANGED attachVars
    /\ UNCHANGED taskVars
    /\ UNCHANGED exitVars

\* every callback has returned: await asyncio.gather(*tasks)
RunTasks ==
    /\ LoopSuspended
    /\ rpc = "startup"
    /\ \A c \in Callbacks : cbs[c] = "done"
    /\ rpc' = "concurrent"
    /\ rtasks' = RunMembers("concurrent")
    /\ UNCHANGED <<spc, why, sres, hook, exits, timer, worker, afterFail,
                   cbs>>
    /\ UNCHANGED eventVars
    /\ UNCHANGED attachVars
    /\ UNCHANGED taskVars
    /\ UNCHANGED exitVars

\* AppEngine.exit(func): the function is appended as it is
AppEngineExit(f) ==
    /\ LoopSuspended
    /\ rpc = "none"
    /\ f \notin Range(exit_callbacks)
    /\ exit_callbacks' = Append(exit_callbacks, f)
    /\ UNCHANGED <<spc, why, sres, hook, exits, timer, worker, afterFail,
                   rpc, cbs, rtasks, ecb>>
    /\ UNCHANGED eventVars
    /\ UNCHANGED attachVars
    /\ UNCHANGED taskVars

\* position in exit_callbacks of the first function whose call gives no
\* awaitable, 0 if there is none
FirstNotAwaitable(fs) ==
    IF \A i \in 1..Len(fs) : IsCoroutineFunction(fs[i]) THEN 0
    ELSE CHOOSE i \in 1..Len(fs) :
             /\ ~IsCoroutineFunction(fs[i])
             /\ \A j \in 1..(i - 1) : IsCoroutineFunction(fs[j])

\* `await asyncio.gather(*exit_tasks)` in the except clause: it waits for
\* the callbacks, or raises TypeError for the first argument that is not
\* an awaitable
ExceptResult(fs) == IF FirstNotAwaitable(fs) = 0 THEN "exitcbs" ELSE "raised"

\* the coroutine of f comes before every argument that is not an awaitable
Wrapped(fs, f) ==
    \/ FirstNotAwaitable(fs) = 0
    \/ \E i \in 1..(FirstNotAwaitable(fs) - 1) : fs[i] = f

\* `except Exception as e`: `exit_tasks = [each() for each in
\* self.exit_callbacks]` calls every callback, which runs a plain function
\* there and then and makes a coroutine of a coroutine function; gather
\* wraps the coroutines in tasks, in order, up to the first argument that
\* is not an awaitable
RunExcept ==
    /\ rpc' = ExceptResult(exit_callbacks)
    /\ ecb' = [f \in ExitCallbacks |->
                 IF f \notin Range(exit_callbacks) THEN ecb[f]
                 ELSE IF ~IsCoroutineFunction(f) THEN "called"
                 ELSE IF Wrapped(exit_callbacks, f)
                 THEN "created" ELSE "unawaited"]
    /\ onLoop' = onLoop \cup
          {f \in Range(exit_callbacks) : ~IsCoroutineFunction(f)}

\* a callback has raised: the first gather raises in run(); the coroutines
\* of build_tasks() are never run
RunCallbackRaised ==
    /\ LoopSuspended
    /\ rpc = "startup"
    /\ \E c \in Callbacks : cbs[c] = "raised"
    /\ RunExcept
    /\ UNCHANGED <<spc, why, sres, hook, exits, timer, worker, afterFail,
                   cbs, rtasks, exit_callbacks>>
    /\ UNCHANGED eventVars
    /\ UNCHANGED attachVars
    /\ UNCHANGED <<interval, launched, tth>>

\* the start() of an application has raised: the second gather raises its
\* exception at once, whatever the other members do
RunPhaseRaised ==
    /\ LoopSuspended
    /\ rpc = "concurrent"
    /\ \E a \in rtasks \cap Apps : sres[a] = "raised"
    /\ RunExcept
    /\ UNCHANGED <<spc, why, sres, hook, exits, timer, worker, afterFail,
                   cbs, rtasks, exit_callbacks>>
    /\ UNCHANGED eventVars
    /\ UNCHANGED attachVars
    /\ UNCHANGED <<interval, launched, tth>>

\* an exit callback runs to a suspension point of its own
ExitCallbackStep(f) ==
    /\ LoopSuspended
    /\ ecb[f] = "created"
    /\ ecb' = [ecb EXCEPT ![f] = "running"]
    /\ UNCHANGED <<spc, why, sres, hook, exits, timer, worker, afterFail,
                   rpc, cbs, rtasks, exit_callbacks>>
    /\ UNCHANGED eventVars
    /\ UNCHANGED attachVars
    /\ UNCHANGED taskVars

\* the exit callback returns or raises
ExitCallbackEnd(f, res) ==
    /\ LoopSuspended
    /\ ecb[f] = "running"
    /\ ecb' = [ecb EXCEPT ![f] = res]
    /\ UNCHANGED <<spc, why, sres, hook, exits, timer, worker, afterFail,
                   rpc, cbs, rtasks, exit_callbacks>>
    /\ UNCHANGED eventVars
    /\ UNCHANGED attachVars
    /\ UNCHANGED taskVars

\* the exit callbacks have returned: run() logs the exception and returns
RunReturn ==
    /\ LoopSuspended
    /\ rpc = "exitcbs"
    /\ \A i \in 1..Len(exit_callbacks) : ecb[exit_callbacks[i]] = "done"
    /\ rpc' = "returned"
    /\ UNCHANGED <<spc, why, sres, hook, exits, timer, worker, afterFail,
                   cbs, rtasks>>
    /\ UNCHANGED eventVars
    /\ UNCHANGED attachVars
    /\ UNCHANGED taskVars
    /\ UNCHANGED exitVars

\* an exit callback has raised: the gather of the except clause raises in
\* run()
RunExitRaised ==
    /\ LoopSuspended
    /\ rpc = "exitcbs"
    /\ \E f \in ExitCallbacks : ecb[f] = "raised"
    /\ rpc' = "raised"
    /\ UNCHANGED <<spc, why, sres, hook, exits, timer, worker, afterFail,
                   cbs, rtasks>>
    /\ UNCHANGED eventVars
    /\ UNCHANGED attachVars
    /\ UNCHANGED taskVars
    /\ UNCHANGED exitVars

\* the task that runs run() is cancelled while run() awaits one of its
\* gathers: the gather cancels its members that are not done, and run()
\* ends with the CancelledError, which `except Exception` does not catch.
\* The dispatch loop is cancelled in get(), or before its first step.  In
\* the except clause only the exit callbacks are members of the gather.
RunCancel ==
    /\ LoopSuspended
    /\ rpc \in {"startup", "concurrent", "exitcbs"}
    /\ rpc' = "cancelled"
    /\ cbs' = [c \in Callbacks |->
                 IF cbs[c] \in {"created", "running"}
                 THEN "cancelled" ELSE cbs[c]]
    /\ ecb' = [f \in ExitCallbacks |->
                 IF rpc = "exitcbs" /\ ecb[f] \in {"created", "running"}
                 THEN "cancelled" ELSE ecb[f]]
    /\ IF rpc = "exitcbs"
       THEN UNCHANGED <<pc, spc, why, sres, hook, exits, timer, worker>>
       ELSE /\ pc' = IF "engine" \in rtasks /\ pc \in {"init", "wait"}
                     THEN "cancelled" ELSE pc
            /\ CancelStart(rtasks \cap Apps)
    /\ UNCHANGED <<afterFail, rtasks, exit_callbacks>>
    /\ UNCHANGED attachVars
    /\ UNCHANGED taskVars
    /\ UNCHANGED <<engineVars, qsize, got, events, histVars, regCalls>>

----------------------------------------------------------------------------
\* an AppEngine with two applications: one with a timer and a coroutine
\* task, one with a thread task; events are published while it runs, and
\* run() may be cancelled

\* the task of _EventEngine.start() takes its first step
RunEngineStart == "engine" \in rtasks /\ Start

\* the tasks of one gather take their first steps in the order of
\* build_tasks(): the loop, then the applications in list order
RunAppStart ==
    \E i \in 1..Len(AppList) :
        /\ AppList[i] \in rtasks
        /\ qexists
        /\ \A j \in 1..(i - 1) : spc[AppList[j]] # "none"
        /\ AppRunnerStart(AppList[i])

\* some of these first steps have been taken, others are still to come:
\* the tasks they create run after all of them, and no cancellation is
\* delivered in between
Launching ==
    /\ qexists
    /\ \E a \in rtasks \cap Apps : spc[a] = "none"

LoopRun ==
    \/ RunEngineStart
    \/ LoopAwaitGet
    \/ LoopSingle
    \/ LoopSnapshot
    \/ LoopGet
    \/ LoopDispatch

PublisherRun == Calls < MaxPublishRun /\ qexists /\ Publish("A", 1)

CallbackTasks ==
    \/ \E c \in Callbacks : CallbackStep(c)
    \/ \E c \in Callbacks : CallbackEnd(c, "done")
    \/ \E c \in Callbacks : CallbackEnd(c, "raised")

Orchestrator ==
    \/ Run
    \/ RunTasks
    \/ RunCallbackRaised
    \/ RunReturn
    \/ ~Launching /\ RunCancel

NextRun ==
    \/ Orchestrator
    \/ CallbackTasks
    \/ LoopRun
    \/ PublisherRun
    \/ RunAppStart
    \/ ~Launching /\ Hooks(RunApps)
    \/ Phases(RunApps)
    \/ TimerTasks(RunApps)
    \/ CoroutineTasks(RunApps)
    \/ ThreadTasks(RunApps)

\* AppEngine([db, work])
InitRun == InitWith(AppList, Positive)

SpecRun == InitRun /\ [][NextRun]_vars

----------------------------------------------------------------------------
\* the same AppEngine with exit callbacks registered before run(), and
\* applications whose exit() may raise

RegisterExit == \E f \in ExitCallbacks : AppEngineExit(f)

ExitFails == \E a \in RunApps : ExitRaise(a)

ExitCallbackTasks ==
    \/ \E f \in ExitCallbacks : ExitCallbackStep(f)
    \/ \E f \in ExitCallbacks : ExitCallbackEnd(f, "done")
    \/ \E f \in ExitCallbacks : ExitCallbackEnd(f, "raised")

OrchestratorEnd ==
    \/ Orchestrator
    \/ RunPhaseRaised
    \/ RunExitRaised

\* no event is published: the loop starts and waits in get()
LoopEnd == RunEngineStart \/ LoopAwaitGet

NextEnd ==
    \/ RegisterExit
    \/ OrchestratorEnd
    \/ CallbackTasks
    \/ ExitCallbackTasks
    \/ LoopEnd
    \/ RunAppStart
    \/ ~Launching /\ Hooks(RunApps)
    \/ Phases(RunApps)
    \/ ExitFails
    \/ TimerTasks(RunApps)
    \/ CoroutineTasks(RunApps)
    \/ ThreadTasks(RunApps)

SpecEnd == InitRun /\ [][NextEnd]_vars

----------------------------------------------------------------------------
\* attaching applications to an AppEngine: the constructor, add_app and
\* Application.register_handler, and applications that publish

\* the methods the body of each class decorates with @on_event, in
\* order, each with its event class: the class of audit overrides the
\* handler of A of its base class and inherits that of B
EventMethods(c) ==
    IF c = "db" THEN <<[type |-> "A", method |-> "count"]>>
    ELSE IF c = "work"
    THEN <<[type |-> "A", method |-> "fail"],
           [type |-> "B", method |-> "count"]>>
    ELSE IF c = "clock" THEN <<[type |-> "A", method |-> "block"]>>
    ELSE IF c = "listener"
    THEN <<[type |-> "A", method |-> "count"],
           [type |-> "B", method |-> "fail"]>>
    ELSE IF c = "audit" THEN <<[type |-> "A", method |-> "count"]>>
    ELSE <<>>

\* EventRegistry.register: self._registry[event_type].append(method_name)
RegisterMethod(reg, t, m) ==
    IF \E i \in 1..Len(reg) : reg[i].type = t
    THEN [i \in 1..Len(reg) |->
            IF reg[i].type = t
            THEN [reg[i] EXCEPT !.methods = Append(@, m)] ELSE reg[i]]
    ELSE Append(reg, [type |-> t, methods |-> <<m>>])

RECURSIVE RegisterMethods(_, _)
RegisterMethods(reg, ms) ==
    IF ms = <<>> THEN reg
    ELSE RegisterMethods(RegisterMethod(reg, Head(ms).type, Head(ms).method),
                         Tail(ms))

\* Meta.__new__: __event_registry__ of a class is a copy of the registry
\* of its base class, in which every @on_event method of the class body
\* is registered: its event classes with the names of their handler
\* methods
RECURSIVE EventRegistry(_)
EventRegistry(a) ==
    IF a = "Application" THEN <<>>
    ELSE RegisterMethods(EventRegistry(BaseOf(a)), EventMethods(a))

\* _AppRunner.register_handler: one engine.register_handler call for every
\* item of the registry
RECURSIVE RegisterItems(_, _)
RegisterItems(tbl, items) ==
    IF items = <<>> THEN tbl
    ELSE RegisterItems(Extend(tbl, Head(items).type, Head(items).methods),
                       Tail(items))

\* history: the handler lists these calls pass
RECURSIVE NoteItems(_, _)
NoteItems(rc, items) ==
    IF items = <<>> THEN rc
    ELSE NoteItems([rc EXCEPT ![Head(items).type] =
                        Append(@, Head(items).methods)],
                   Tail(items))

\* an add_app that sets the engine and registers nothing
AttachRegistryNone(a) == <<>>

\* `each.register_handler()` in add_app: the registry of the application
AttachRegistry(a) == EventRegistry(a)

\* the registries of the applications of one add_app call, in order
RECURSIVE AttachItems(_)
AttachItems(as) ==
    IF as = <<>> THEN <<>>
    ELSE AttachRegistry(Head(as)) \o AttachItems(Tail(as))

\* AppEngine.add_app(*app): for each application set_engine(self),
\* register_handler() and self._apps.append(each)
AddApp(as) ==
    /\ LoopSuspended
    /\ apps' = apps \o as
    /\ engine' = [a \in Apps |-> IF a \in Range(as) THEN "set" ELSE engine[a]]
    /\ handlers' = RegisterItems(handlers, AttachItems(as))
    /\ regCalls' = NoteItems(regCalls, AttachItems(as))
    /\ UNCHANGED <<active, qexists, queue, putters, woken, tasks, err>>
    /\ UNCHANGED loopVars
    /\ UNCHANGED histVars
    /\ UNCHANGED <<spc, why, sres, hook, exits, timer, worker, afterFail,
                   rpc, cbs, rtasks, exitVars, taskVars>>

\* `self._app.engine.register_handler` and `self.engine.pub_event` on an
\* application whose engine is None: an attribute of None is looked up
NoEngineError == "AttributeError"

\* Application.register_handler(), called on the application itself: the
\* engine is looked up once for every item of the registry
AppRegisterHandler(a) ==
    /\ LoopSuspended
    /\ IF engine[a] = "none" /\ EventRegistry(a) # <<>>
       THEN /\ err' = [err EXCEPT ![a] = NoEngineError]
            /\ UNCHANGED <<handlers, regCalls>>
       ELSE /\ err' = [err EXCEPT ![a] = "none"]
            /\ handlers' = RegisterItems(handlers, EventRegistry(a))
            /\ regCalls' = NoteItems(regCalls, EventRegistry(a))
    /\ UNCHANGED <<active, qexists, queue, putters, woken, tasks, apps,
                   engine>>
    /\ UNCHANGED loopVars
    /\ UNCHANGED histVars
    /\ UNCHANGED <<spc, why, sres, hook, exits, timer, worker, afterFail,
                   rpc, cbs, rtasks, exitVars, taskVars>>

\* `await self.engine.pub_event(Event(d))` in a method of application a
AppPubEvent(a, t, d) ==
    /\ LoopSuspended
    /\ IF engine[a] = "none"
       THEN /\ err' = [err EXCEPT ![a] = NoEngineError]
            /\ UNCHANGED <<queue, putters, published, enqOrder, pubErrors>>
       ELSE /\ PubEvent(NewEvent(Len(published) + 1, t, d), 0)
            /\ err' = [err EXCEPT ![a] =
                          IF qexists THEN "none" ELSE "AttributeError"]
    /\ UNCHANGED <<active, qexists, woken, handlers, tasks, apps, engine>>
    /\ UNCHANGED loopVars
    /\ UNCHANGED <<invoked, tstate, dispatched, round, path, qAtSnap, burst,
                   mark, regCalls>>
    /\ UNCHANGED <<spc, why, sres, hook, exits, timer, worker, afterFail,
                   rpc, cbs, rtasks, exitVars, taskVars>>

\* the lists an AppEngine is constructed with
ConstructorArgs == {<<>>, <<"db">>}

\* the applications of this engine
AttachApps == {"sched", "db", "work"}

\* the argument lists of add_app: applications that are not attached yet
AddAppArgs ==
    {as \in UNION {[1..n -> AttachApps] : n \in 1..MaxAddApp} :
        /\ \A i, j \in 1..Len(as) : i # j => as[i] # as[j]
        /\ Range(as) \cap Range(apps) = {}}

\* add_app is called before the engine runs
Attach == \E as \in AddAppArgs : pc = "init" /\ AddApp(as)

\* register_handler is called on an application that is not attached
RegisterDetached ==
    \E a \in AttachApps : engine[a] = "none" /\ AppRegisterHandler(a)

PublisherAttach ==
    \E a \in AttachApps, t \in EventTypes :
        /\ Calls < MaxPublishAttach
        /\ qexists
        /\ AppPubEvent(a, t, 1)

\* an AppEngine made with or without applications, to which applications
\* are added before its dispatch loop starts and whose applications publish
NextAttach ==
    \/ Attach
    \/ RegisterDetached
    \/ PublisherAttach
    \/ Loop
    \/ Handler

InitAttach == \E lst \in ConstructorArgs : InitWith(lst, Positive)

SpecAttach == InitAttach /\ [][NextAttach]_vars

----------------------------------------------------------------------------
\* an application whose class is defined with some interval argument for
\* its timer, whose methods are plain functions, and whose start() is
\* called on its own and may be cancelled

\* the interval arguments a class may pass to @timer
Intervals == {NotANumber} \cup {Number(n) : n \in -1..MaxInterval}

\* a class statement whose decorator raises defines no class
ClassDefined(a) == \A t \in TimersOf(a) : interval[t].raised = "none"

NextClock ==
    \/ ClassDefined("clock") /\ AppRunnerStart("clock")
    \/ Hooks({"clock"})
    \/ Phases({"clock"})
    \/ TimerTasks({"clock"})
    \/ TimerThreads({"clock"})
    \/ ThreadTasks({"clock"})
    \/ CancelApp("clock")

InitClock ==
    \E iv \in Intervals : InitWith(<<>>, [Positive EXCEPT !["tick"] = iv])

SpecClock == InitClock /\ [][NextClock]_vars

----------------------------------------------------------------------------
\* an application whose timer, background task and event handler are plain
\* functions, attached to an engine whose loop runs: its start() and the
\* loop share the scheduler with the threads of the plain functions

AttachClock == pc = "init" /\ apps = <<>> /\ AddApp(<<"clock">>)

\* an event is published whenever the loop waits for one
PublisherOffload ==
    /\ Calls < MaxPublishOffload
    /\ pc = "wait"
    /\ Empty(queue)
    /\ Publish("A", 1)

LoopOffload == Start \/ LoopAwaitGet \/ LoopSingle

HandlerOffload ==
    \/ \E n \in 1..Len(invoked) : RunBlock(n)
    \/ \E n \in 1..Len(invoked) : BlockEnd(n, "ok")
    \/ \E n \in 1..Len(invoked) : BlockEnd(n, "exc")

\* start() of the application: its hook returns
StartOffload ==
    \/ apps # <<>> /\ AppRunnerStart("clock")
    \/ BeforeStartStep("clock")
    \/ BeforeStartReturn("clock")
    \/ StartTasks("clock")
    \/ PhaseReturned("clock")
    \/ PhaseRaised("clock")
    \/ ExitReturn("clock")

\* the background tasks and the threads of their plain functions
WorkerOffload ==
    \/ \E w \in WorkersOf("clock") : WorkerFirst(w)
    \/ \E w \in WorkersOf("clock") : ThreadEnd(w, "returned")
    \/ \E w \in WorkersOf("clock") : ThreadEnd(w, "raised")

NextOffload ==
    \/ AttachClock
    \/ PublisherOffload
    \/ LoopOffload
    \/ HandlerOffload
    \/ StartOffload
    \/ TimerTasks({"clock"})
    \/ TimerThreads({"clock"})
    \/ WorkerOffload

SpecOffload == Init /\ [][NextOffload]_vars

----------------------------------------------------------------------------
\* the engine with a handler that is a plain function, whose calls stay
\* in progress in their threads for as long as they like

RegisterPending ==
    pc = "init" /\ handlers["A"] = <<>> /\ RegisterHandler("A", <<"block">>)

PublisherPending == Calls < MaxPublishPending /\ qexists /\ Publish("A", 1)

NextPending == RegisterPending \/ PublisherPending \/ Loop \/ HandlerOffload

SpecPending == Init /\ [][NextPending]_vars

----------------------------------------------------------------------------
\* the engine whose start() is called again while its loop runs

RegisterOnce ==
    pc = "init" /\ handlers["A"] = <<>> /\ RegisterHandler("A", <<"count">>)

PublisherAgain == Calls < MaxPublishAgain /\ qexists /\ Publish("A", 1)

LoopAgain == Loop \/ LoopSingleOld

NextAgain ==
    \/ RegisterOnce
    \/ PublisherAgain
    \/ StartAgain
    \/ LoopAgain
    \/ \E n \in 1..Len(invoked) : RunCount(n)

SpecAgain == Init /\ [][NextAgain]_vars

----------------------------------------------------------------------------
\* an application whose class inherits one handler and overrides another,
\* added to an engine whose loop then runs

AttachAudit == pc = "init" /\ apps = <<>> /\ AddApp(<<"audit">>)

PublisherInherit ==
    \E t \in EventTypes :
        Calls < MaxPublishInherit /\ qexists /\ Publish(t, 1)

NextInherit == AttachAudit \/ PublisherInherit \/ Loop \/ Handler

SpecInherit == Init /\ [][NextInherit]_vars

----------------------------------------------------------------------------
\* the engine with a returning, a raising and a plain handler, where the end
\* of a handler task and its done callback are steps of their own

RegisterTrack ==
    /\ pc = "init"
    /\ handlers["A"] = <<>>
    /\ RegisterHandler("A", <<"count", "fail", "block">>)

PublisherTrack == Calls < MaxPublishTrack /\ qexists /\ Publish("A", 1)

HandlerTrack ==
    \/ \E n \in 1..Len(invoked) : CountDone(n)
    \/ \E n \in 1..Len(invoked) : FailDone(n)
    \/ \E n \in 1..Len(invoked) : RunBlock(n)
    \/ \E n \in 1..Len(invoked) : BlockDone(n, "ok")
    \/ \E n \in 1..Len(invoked) : BlockDone(n, "exc")
    \/ \E n \in tasks : Discard(n)

NextTrack == RegisterTrack \/ PublisherTrack \/ Loop \/ HandlerTrack

SpecTrack == Init /\ [][NextTrack]_vars

----------------------------------------------------------------------------
\* Properties of the dispatch engine

\* the handler calls made for the b-th batch passed to process_event
CallsOf(b) == {i \in 1..Len(invoked) : invoked[i].b = b}

\* the type of a batch
TypeOf(batch) == batch[1].type

\* C1: every handler call made by the loop gets a non-empty list, and every
\* event of the list has exactly the class under which the handler is
\* registered, on the singleton path and on the drain path
C1_NonEmptyExactType ==
    \A i \in 1..Len(invoked) :
        /\ Len(invoked[i].batch) >= 1
        /\ \A j \in 1..Len(invoked[i].batch) :
              invoked[i].batch[j].type = invoked[i].key
        /\ dispatched[invoked[i].b].path \in {"single", "drain"}

\* C1 witness: a handler was called on the singleton path and a handler
\* was called on the drain path with two events, while events of another
\* class went through the same drain
C1_Witness ==
    /\ \E i \in 1..Len(invoked) :
          dispatched[invoked[i].b].path = "single"
    /\ \E i \in 1..Len(invoked) :
          /\ dispatched[invoked[i].b].path = "drain"
          /\ Len(invoked[i].batch) >= 2
          /\ \E b \in 1..Len(dispatched) :
                /\ dispatched[b].round = dispatched[invoked[i].b].round
                /\ TypeOf(dispatched[b].batch) # invoked[i].key

\* the batches the handler in slot s of class t received since the loop
\* last resumed from get(), in call order
BatchesSince(t, s) ==
    LET cs == SelectSeq(SubSeq(invoked, mark + 1, Len(invoked)),
                        LAMBDA c : c.key = t /\ c.slot = s)
    IN  [i \in 1..Len(cs) |-> cs[i].batch]

\* the last n events enqueued, oldest first
LastEnqueued(n) == SubSeq(enqOrder, Len(enqOrder) - n + 1, Len(enqOrder))

\* the loop has handled all events that were enqueued while it was
\* suspended in get(), and they were all of one class
BurstHandled ==
    /\ pc = "top"
    /\ Empty(queue)
    /\ burst # <<>>
    /\ \A i \in 1..Len(burst) : burst[i].type = burst[1].type

\* C2 as claimed: N events of one class enqueued before the loop takes its
\* next step reach every handler of the class in one call, with one batch
\* that holds all N events in publish order
C2_OneBatchPerBurst ==
    BurstHandled =>
        /\ Ids(burst) = LastEnqueued(Len(burst))
        /\ \A s \in 1..Len(handlers[burst[1].type]) :
              BatchesSince(burst[1].type, s) = <<burst>>

\* C2 amended: on an engine started once and not stopped, N events of one
\* class enqueued while the loop is suspended in get() on the empty queue
\* reach every handler of the class as the singleton batch of the first
\* event and, for N >= 2, one more batch that holds the other N-1 events
\* in publish order
C2_SingletonThenRest ==
    BurstHandled =>
        /\ Ids(burst) = LastEnqueued(Len(burst))
        /\ \A s \in 1..Len(handlers[burst[1].type]) :
              BatchesSince(burst[1].type, s) =
                  IF Len(burst) = 1 THEN <<burst>>
                  ELSE << <<burst[1]>>, Tail(burst) >>

\* C2 witness: three events of one class with a handler were enqueued
\* while the loop was suspended, and the loop has handled them
C2_Witness ==
    /\ BurstHandled
    /\ Len(burst) >= 3
    /\ handlers[burst[1].type] # <<>>
    /\ Len(invoked) >= mark + 2

\* the ids of all events in the batches passed to process_event so far
DispatchedIds ==
    UNION {{dispatched[b].batch[j].id : j \in 1..Len(dispatched[b].batch)} :
              b \in 1..Len(dispatched)}

\* the ids of the events the loop holds between get() and process_event
HeldIds == IF pc = "drain" THEN {e.id : e \in Range(Flatten(events))} ELSE {}

\* the batches passed to process_event that hold the event with this id
BatchesWith(id) ==
    {b \in 1..Len(dispatched) :
        \E j \in 1..Len(dispatched[b].batch) : dispatched[b].batch[j].id = id}

\* the positions of the event with this id in a batch
PositionsIn(batch, id) == {j \in 1..Len(batch) : batch[j].id = id}

\* C3: every completed publish call is one delivery: an enqueued event is
\* in the queue, held by the loop, or in exactly one batch, once; that
\* batch was passed once to each handler its class had at that moment, and
\* to nothing else; republishing an event object is a delivery of its own
C3_ExactlyOneDelivery ==
    /\ \A k \in 1..Len(enqOrder) :
          LET id == enqOrder[k]
              inQueue == {j \in 1..Len(queue) : queue[j].id = id}
          IN  /\ Cardinality(inQueue) + Cardinality(HeldIds \cap {id})
                    + Cardinality(BatchesWith(id)) = 1
              /\ \A b \in BatchesWith(id) :
                    Cardinality(PositionsIn(dispatched[b].batch, id)) = 1
    /\ \A b \in 1..Len(dispatched) :
          /\ \A s \in 1..dispatched[b].regs :
                Cardinality({i \in CallsOf(b) :
                    /\ invoked[i].slot = s
                    /\ invoked[i].key = TypeOf(dispatched[b].batch)
                    /\ invoked[i].batch = dispatched[b].batch}) = 1
          /\ Cardinality(CallsOf(b)) = dispatched[b].regs
    /\ \A i \in 1..Len(invoked) : invoked[i].b \in 1..Len(dispatched)
    /\ (pc = "wait" /\ Empty(queue)) => DispatchedIds = Range(enqOrder)

\* C3 witness: an event was published twice, with the same class and
\* payload, and a handler of its class has received it in two calls
C3_Witness ==
    \E i, j \in 1..Len(invoked) :
        /\ i # j
        /\ invoked[i].key = invoked[j].key
        /\ invoked[i].slot = invoked[j].slot
        /\ \E x \in 1..Len(invoked[i].batch), y \in 1..Len(invoked[j].batch) :
              /\ invoked[i].batch[x].id # invoked[j].batch[y].id
              /\ invoked[i].batch[x].type = invoked[j].batch[y].type
              /\ invoked[i].batch[x].data = invoked[j].batch[y].data

\* the handler calls that received an event of class t
CallsWithType(t) ==
    {i \in 1..Len(invoked) :
        \E j \in 1..Len(invoked[i].batch) : invoked[i].batch[j].type = t}

\* C4: lookup is by exact class: while no handler is registered for a
\* class, publishing events of that class calls no handler, whatever is
\* registered for its base class or its subclass; and a call never hands
\* an event to a handler that is not in the entry of the event's class
C4_ExactTypeLookup ==
    /\ \A t \in EventTypes : handlers[t] = <<>> => CallsWithType(t) = {}
    /\ \A t \in EventTypes : \A i \in CallsWithType(t) :
          /\ invoked[i].slot \in 1..Len(handlers[t])
          /\ handlers[t][invoked[i].slot] = invoked[i].h
          /\ invoked[i].key = t

\* C4 witness: only the base class A has a handler, events of A and of
\* its subclass B went through process_event, and the handler was called
C4_Witness ==
    /\ handlers["A"] # <<>>
    /\ handlers["B"] = <<>>
    /\ \E b \in 1..Len(dispatched) : TypeOf(dispatched[b].batch) = "B"
    /\ CallsWithType("A") # {}

\* C4 witness, the other way round: only the subclass B has a handler
C4_WitnessSub ==
    /\ handlers["B"] # <<>>
    /\ handlers["A"] = <<>>
    /\ \E b \in 1..Len(dispatched) : TypeOf(dispatched[b].batch) = "A"
    /\ CallsWithType("B") # {}

\* the slots of class t that hold the handler h
SlotsOf(t, h) == {s \in 1..Len(handlers[t]) : handlers[t][s] = h}

\* the batches of class t passed to process_event when slot s was filled
BatchesFor(t, s) ==
    {b \in 1..Len(dispatched) :
        TypeOf(dispatched[b].batch) = t /\ dispatched[b].regs >= s}

\* no handler task is waiting to run
Quiet == \A i \in 1..Len(invoked) : tstate[i] # "created"

\* C5: a raising handler never prevents delivery: the counting handler is
\* called once for every batch of its class, also when a raising handler
\* precedes it in the entry; its own calls never fail; once the tasks have
\* run its count is the number of batches; and the loop is still running
C5_FailureIsolated ==
    /\ \A t \in EventTypes : \A s \in SlotsOf(t, "count") :
          /\ \A b \in BatchesFor(t, s) :
                Cardinality({i \in CallsOf(b) : invoked[i].slot = s}) = 1
          /\ Quiet =>
                Cardinality({i \in 1..Len(invoked) :
                    /\ invoked[i].key = t
                    /\ invoked[i].slot = s
                    /\ tstate[i] = "ok"}) = Cardinality(BatchesFor(t, s))
    /\ \A i \in 1..Len(invoked) :
          tstate[i] = "exc" => invoked[i].h = "fail"
    /\ (\E i \in 1..Len(invoked) : tstate[i] = "exc") =>
          (active /\ pc \in {"top", "wait", "drain"})

\* C5 witness: a raising handler precedes a counting handler in one
\* entry, a call of the raising handler has failed, and a later batch
\* was still passed to both
C5_Witness ==
    \E t \in EventTypes :
        /\ Len(handlers[t]) = 2
        /\ handlers[t][1] = "fail"
        /\ handlers[t][2] = "count"
        /\ \E i, j, k \in 1..Len(invoked) :
              /\ invoked[i].key = t /\ invoked[i].slot = 1
              /\ tstate[i] = "exc"
              /\ invoked[j].key = t /\ invoked[j].slot = 2
              /\ invoked[j].b = invoked[i].b
              /\ tstate[j] = "ok"
              /\ invoked[k].key = t /\ invoked[k].slot = 2
              /\ invoked[k].b > invoked[i].b
              /\ tstate[k] = "ok"

\* a step in which pub_event is called with an existing queue
PubCall == qexists /\ Len(published') = Len(published) + 1

\* the event of the pub_event call of a step
PubArg == published'[Len(published')]

\* the suspended publishers, waiting or with their wait ended
Suspended == Range(putters) \cup woken

\* C6: publish applies backpressure and nothing else: with fewer than 10
\* events in the queue the call enqueues the event and returns; with 10 the
\* caller is suspended without an error, its wait is ended only by a step
\* of the loop that removes an event, and when it then runs with room in
\* the queue its event is enqueued
C6_Backpressure ==
    /\ [][PubCall /\ Len(queue) < QueueMaxSize =>
            /\ queue' = Append(queue, PubArg)
            /\ Suspended' = Suspended
            /\ pubErrors' = pubErrors]_vars
    /\ [][PubCall /\ Len(queue) = QueueMaxSize =>
            /\ queue' = queue
            /\ Len(putters') = Len(putters) + 1
            /\ SubSeq(putters', 1, Len(putters)) = putters
            /\ putters'[Len(putters')].ev = PubArg
            /\ woken' = woken
            /\ pubErrors' = pubErrors]_vars
    /\ [][woken' \ woken # {} =>
            /\ Len(queue') = Len(queue) - 1
            /\ pc \in {"wait", "drain"}
            /\ woken' \ woken = {Head(putters)}]_vars
    /\ [][\A p \in woken \ woken' :
            /\ Len(queue) < QueueMaxSize => queue' = Append(queue, p.ev)
            /\ Len(queue) = QueueMaxSize => p \in Range(putters')]_vars
    /\ [](\A p \in Suspended : p.ev.id \notin Range(enqOrder))

\* C6 witness: a publisher was suspended on the full queue, the loop
\* removed an event, and its event was enqueued - behind the event of a
\* later call that found room first
C6_Witness ==
    \E j, k \in 1..Len(enqOrder) :
        /\ j < k
        /\ enqOrder[j] > enqOrder[k]

\* C7 as claimed: publish never fails because of the engine's lifecycle
\* state: no pub_event call raises, also before start() has run
C7_PublishNeverFails == pubErrors = 0

\* C8: the queue never holds more than 10 events
C8_QueueBounded == Len(queue) <= QueueMaxSize

\* C8 witness: the queue holds 10 events and a handler that publishes is
\* suspended on it
C8_Witness ==
    /\ Len(queue) = QueueMaxSize
    /\ \E i \in 1..Len(putters) : putters[i].who # 0

\* C8 witness: the queue holds 10 events and two publishers are suspended
C8_WitnessTwo ==
    /\ Len(queue) = QueueMaxSize
    /\ Len(putters) >= 2

\* the position of the event with this id in the order of enqueueing
EnqPos(id) == CHOOSE k \in 1..Len(enqOrder) : enqOrder[k] = id

\* C9: every batch lists its events in the order in which they were
\* enqueued
C9_BatchKeepsOrder ==
    \A b \in 1..Len(dispatched) :
        \A j, k \in 1..Len(dispatched[b].batch) :
            j < k => EnqPos(dispatched[b].batch[j].id)
                        < EnqPos(dispatched[b].batch[k].id)

\* C9 witness: a drain round took two events of one class with an event of
\* the other class between them, and a handler got the two in one batch
C9_Witness ==
    \E i \in 1..Len(invoked) :
        /\ dispatched[invoked[i].b].path = "drain"
        /\ Len(invoked[i].batch) >= 2
        /\ \E e \in Range(qAtSnap) :
              /\ e.type # invoked[i].key
              /\ e.id > invoked[i].batch[1].id
              /\ e.id < invoked[i].batch[2].id

\* the batches of the last iteration that dequeued
LastBatches ==
    SelectSeq(dispatched, LAMBDA r : r.round = round)

\* C10: a drain round removes exactly the events that were in the queue
\* when it took its snapshot and passes them on as one batch per class,
\* each batch all the events of its class; an event enqueued later is in
\* the batches of a later round
C10_SnapshotPartition ==
    /\ (pc = "top" /\ path = "drain") =>
          /\ qsize = Len(qAtSnap)
          /\ got = qsize
          /\ queue = SubSeq(qAtSnap, got + 1, Len(qAtSnap))
          /\ \A t \in EventTypes :
                LET bs == SelectSeq(LastBatches, LAMBDA r : TypeOf(r.batch) = t)
                IN  IF SelectType(qAtSnap, t) = <<>> THEN bs = <<>>
                    ELSE /\ Len(bs) = 1
                         /\ bs[1].batch = SelectType(qAtSnap, t)
                         /\ bs[1].path = "drain"
    /\ \A a, b \in 1..Len(dispatched) :
          \A j \in 1..Len(dispatched[a].batch) :
              \A k \in 1..Len(dispatched[b].batch) :
                  EnqPos(dispatched[a].batch[j].id)
                        < EnqPos(dispatched[b].batch[k].id)
                     => dispatched[a].round <= dispatched[b].round

\* C10 witness: a drain round has passed on batches of two classes, and an
\* event enqueued after it was passed on in a later round
C10_Witness ==
    \E a, b, c \in 1..Len(dispatched) :
        /\ dispatched[a].path = "drain"
        /\ dispatched[b].path = "drain"
        /\ dispatched[a].round = dispatched[b].round
        /\ a # b
        /\ dispatched[c].round > dispatched[a].round

----------------------------------------------------------------------------
\* Properties of the handler table

\* the handlers called for the b-th batch, in call order
HandlersCalled(b) ==
    LET cs == SelectSeq(invoked, LAMBDA c : c.b = b)
    IN  [i \in 1..Len(cs) |-> cs[i].h]

\* number of times h occurs in a list of handlers
Occurrences(hs, h) == Cardinality({i \in 1..Len(hs) : hs[i] = h})

\* C11: register_handler only appends and never de-duplicates: the entry of
\* a type is the concatenation of the handler lists passed for that type in
\* call order, no step removes or reorders what an entry holds, and every
\* batch reaches the handlers its entry held, a handler registered k times
\* being called k times for the batch
C11_AppendOnly ==
    /\ [](\A t \in EventTypes : handlers[t] = Flatten(regCalls[t]))
    /\ [][\A t \in EventTypes :
            /\ Len(handlers'[t]) >= Len(handlers[t])
            /\ SubSeq(handlers'[t], 1, Len(handlers[t])) = handlers[t]]_vars
    /\ [](\A b \in 1..Len(dispatched) :
            LET entry == SubSeq(Flatten(regCalls[TypeOf(dispatched[b].batch)]),
                                1, dispatched[b].regs)
            IN  /\ HandlersCalled(b) = entry
                /\ \A h \in HandlerNames :
                      Occurrences(HandlersCalled(b), h) = Occurrences(entry, h))

\* C11 witness: one handler was passed in two register_handler calls for a
\* type, the first time after another handler, and a batch of the type was
\* dispatched to it twice
C11_Witness ==
    \E b \in 1..Len(dispatched) :
        LET t == TypeOf(dispatched[b].batch)
        IN  /\ Len(regCalls[t]) >= 2
            /\ regCalls[t][1] = <<"fail", "count">>
            /\ regCalls[t][2] = <<"count">>
            /\ HandlersCalled(b) = <<"fail", "count", "count">>

----------------------------------------------------------------------------
\* Properties of stop()

\* stop() was called on the running engine and start() has not returned
StopPending == ~active /\ pc \in {"top", "wait", "drain"}

\* C12: after stop() on a running engine the loop eventually exits, with
\* the loop scheduled fairly and no further event required, also when
\* stop() is called while the loop waits on the empty queue
C12_StopExits == StopPending ~> (pc = "exited")

----------------------------------------------------------------------------
\* Properties of an application's start()

\* a timer or background task of the application has taken a step
Stepped(a) ==
    \/ \E t \in TimersOf(a) : timer[t].pc \notin {"none", "created"}
    \/ \E w \in WorkersOf(a) : worker[w].co \notin {"none", "created"}

\* C13: the startup hook has run to completion before any timer or
\* background task of the application takes its first step; while the hook
\* is still running no timer callback and no task body has executed
C13_HookBeforeTasks ==
    \A a \in Apps :
        /\ Stepped(a) => hook[a] = "done"
        /\ hook[a] \in {"created", "running"} =>
              /\ \A t \in TimersOf(a) : timer[t].calls = 0
              /\ \A w \in WorkersOf(a) : worker[w].th = "none"

\* C13 witness: the hook has returned after a suspension of its own, a
\* timer has called its callback and both background tasks have stepped
C13_Witness ==
    /\ hook["sched"] = "done"
    /\ timer["sync"].calls >= 1
    /\ worker["feeder"].steps >= 1
    /\ worker["monitor"].th = "running"

\* C14: for every start() the shutdown hook is called exactly once: not
\* before the try block has ended, once when it has ended, whether the
\* tasks all returned, one raised or start() was cancelled, and never again
C14_ExitOnce ==
    \A a \in Apps :
        /\ exits[a] <= 1
        /\ spc[a] \in {"none", "hook", "phase"} => exits[a] = 0
        /\ spc[a] \in {"exit", "done"} => exits[a] = 1
        /\ why[a] \in {"returned", "raised", "cancelled"} => exits[a] = 1

\* C14 witness: start() was cancelled in its concurrent phase while a timer
\* slept, the shutdown hook ran, and start() has ended
C14_Witness ==
    /\ spc["sched"] = "done"
    /\ why["sched"] = "cancelled"
    /\ timer["cleanup"].pc = "cancelled"
    /\ timer["cleanup"].sleeps >= 1
    /\ exits["sched"] = 1

\* a timer or background task of the application can still take a step
Live(a) ==
    \/ \E t \in TimersOf(a) : timer[t].pc \in {"created", "call", "sleep"}
    \/ \E w \in WorkersOf(a) : worker[w].co \in {"created", "running"}
    \/ \E w \in WorkersOf(a) : worker[w].th = "running"

\* C15: the shutdown hook is called only after the concurrent phase has
\* ended: from the moment it starts no timer and no background task of the
\* application is running
C15_ExitAfterTasks == \A a \in Apps : exits[a] >= 1 => ~Live(a)

\* C16: a timer with run_at_once calls its callback once before its first
\* interval wait; a timer without it completes an interval wait before
\* each call, the first one included
C16_RunAtOnce ==
    \A t \in Timers :
        IF RunAtOnce(t)
        THEN /\ timer[t].calls <= timer[t].sleeps + 1
             /\ (timer[t].pc = "sleep" \/ timer[t].sleeps >= 1) =>
                   timer[t].calls = timer[t].sleeps + 1
        ELSE timer[t].calls = timer[t].sleeps

\* C16 witness: the timer with run_at_once has made its second call after
\* one wait, the timer without it its first call after one wait
C16_Witness ==
    /\ timer["sync"].calls = 2
    /\ timer["sync"].sleeps = 1
    /\ timer["cleanup"].calls = 1
    /\ timer["cleanup"].sleeps = 1

\* timer t's callback raises in this step
TimerRaises(t) ==
    /\ timer[t].pc = "call"
    /\ timer'[t].pc \notin {"call", "sleep", "cancelled"}

\* C17: a timer whose callback raised an exception has ended for good, the
\* exception does not reach the gather of start(), and the step leaves
\* every other timer and background task of the application as it was
C17_TimerFailure ==
    /\ [][\A t \in Timers :
            timer[t].pc = "failed" => timer'[t] = timer[t]]_vars
    /\ [][\A t \in Timers :
            TimerRaises(t) =>
                /\ timer'[t].pc = "failed"
                /\ spc' = spc /\ why' = why /\ exits' = exits
                /\ \A u \in Timers \ {t} : timer'[u] = timer[u]
                /\ worker' = worker]_vars
    /\ [](\A a \in Apps : ~(\E t \in TimersOf(a) : timer[t].pc = "raised"))
    /\ [](\A a \in Apps :
            (why[a] = "raised" /\ hook[a] # "raised") =>
                \E w \in WorkersOf(a) : worker[w].co = "raised")

\* C17 witness: one timer has failed, nothing else of the application has,
\* start() is still in its concurrent phase, and the other timer and a
\* background task have stepped since the failure
C17_Witness ==
    /\ timer["sync"].pc = "failed"
    /\ timer["cleanup"].pc = "call"
    /\ \A w \in WorkersOf("sched") : worker[w].co # "raised"
    /\ spc["sched"] = "phase"
    /\ {"cleanup", "feeder"} \subseteq afterFail

\* background task w raises in this step
WorkerRaises(w) == worker[w].co # "raised" /\ worker'[w].co = "raised"

\* C18: an exception raised in a background task is caught, start() never
\* ends with it; the task that raised is not run again, and the step
\* leaves every timer and every other task of the application as it was
C18_WorkerFailure ==
    /\ [][\A w \in Workers :
            worker[w].co = "raised" => worker'[w] = worker[w]]_vars
    /\ [][\A w \in Workers :
            WorkerRaises(w) =>
                /\ timer' = timer
                /\ \A v \in Workers \ {w} : worker'[v] = worker[v]]_vars
    /\ [](\A a \in Apps : sres[a] # "raised")

\* C18 witness: the coroutine task has raised, start() has caught the
\* exception and returned, and since the failure both timers and the
\* thread task have stepped
C18_Witness ==
    /\ worker["feeder"].co = "raised"
    /\ sres["sched"] = "returned"
    /\ why["sched"] = "raised"
    /\ {"sync", "cleanup", "monitor"} \subseteq afterFail
    /\ \A t \in TimersOf("sched") : timer[t].pc # "failed"

----------------------------------------------------------------------------
\* Properties of AppEngine.run()

\* run() was cancelled while it awaited the gather of build_tasks()
CancelledInPhase == rpc = "cancelled" /\ rtasks # {}

\* C19: once run() is cancelled in its concurrent phase the dispatch loop
\* has stopped, no timer and no background task of any attached
\* application, coroutine or thread, is running any more, and every
\* application whose start() had begun has had its shutdown hook called
C19_CancelReachesAll ==
    CancelledInPhase =>
        /\ pc = "cancelled"
        /\ \A a \in RunApps : ~Live(a)
        /\ \A a \in RunApps : spc[a] # "unstarted" => exits[a] = 1

\* the dispatch loop, or the start() of an attached application, has taken
\* its first step
RunTaskStepped ==
    \/ qexists
    \/ pc \notin {"init", "cancelled"}
    \/ \E a \in RunApps : spc[a] \notin {"none", "unstarted"}
    \/ \E a \in RunApps : hook[a] # "none" \/ Stepped(a)

\* C20: every engine-level startup callback has completed before the
\* dispatch loop or the start() of any attached application, with its
\* hook, timers and tasks, takes its first step
C20_CallbacksFirst ==
    /\ RunTaskStepped => \A c \in Callbacks : cbs[c] = "done"
    /\ (\E c \in Callbacks : cbs[c] \in {"created", "running"}) =>
          /\ pc = "init"
          /\ \A a \in RunApps : spc[a] = "none" /\ ~Stepped(a)

\* C20 witness: both callbacks have returned, the loop waits in get(), an
\* application is in its concurrent phase and its timer has called back
C20_Witness ==
    /\ \A c \in Callbacks : cbs[c] = "done"
    /\ pc = "wait"
    /\ spc["db"] = "phase"
    /\ timer["periodic"].calls >= 1
    /\ hook["work"] = "running"

----------------------------------------------------------------------------
\* Properties of AppEngine.run() at its end

\* the second gather of run() has raised an Exception and run() has ended
PhaseRaisedEnded ==
    /\ rtasks # {}
    /\ \E a \in rtasks \cap Apps : sres[a] = "raised"
    /\ rpc \in {"returned", "raised"}

\* C21: when the concurrent phase of run() has raised, every registered
\* exit callback has been run and awaited to its end, and run() has
\* returned without raising.
C21_ExitCallbacksThenReturn ==
    PhaseRaisedEnded =>
        /\ rpc = "returned"
        /\ \A i \in 1..Len(exit_callbacks) : ecb[exit_callbacks[i]] = "done"

\* run() has started its concurrent phase and has ended, by a return, an
\* exception or a cancellation
MainRunEnded == rtasks # {} /\ rpc \in {"returned", "raised", "cancelled"}

\* C22: when run() has ended after its main run, however that ended, every
\* startup callback has run once, before it, and every registered exit
\* callback has run once, after it.
C22_CallbacksOnceEach ==
    MainRunEnded =>
        /\ \A c \in Callbacks : cbs[c] = "done"
        /\ \A i \in 1..Len(exit_callbacks) :
               ecb[exit_callbacks[i]] \in {"done", "called"}

\* the second gather of run() has raised and run() has returned
FatalReturned == PhaseRaisedEnded /\ rpc = "returned"

\* C23: once run() has returned after a failure of its concurrent phase,
\* the dispatch loop has ended and no start(), timer or background task of
\* an attached application can take a further step.
C23_TornDownTogether ==
    FatalReturned =>
        /\ pc \in {"exited", "cancelled"}
        /\ \A a \in RunApps : spc[a] \in {"done", "unstarted"} /\ ~Live(a)

----------------------------------------------------------------------------
\* Properties of attaching applications

\* the applications a step appends to _apps
Added == SubSeq(apps', Len(apps) + 1, Len(apps'))

\* the bindings of method h to class t that the classes of the
\* applications in `as` declare
Declared(as, t, h) ==
    UNION {UNION {{<<i, j, k>> :
                      k \in {k \in 1..Len(EventRegistry(as[i])[j].methods) :
                                EventRegistry(as[i])[j].methods[k] = h}} :
                  j \in {j \in 1..Len(EventRegistry(as[i])) :
                            EventRegistry(as[i])[j].type = t}} :
           i \in 1..Len(as)}

\* C24: a step of add_app leaves every application it was passed with its
\* engine set and with every handler binding its class declares in the
\* handler table, under the event class of the binding.
C24_AddAppRegisters ==
    [][apps' # apps =>
          /\ \A a \in Range(Added) : engine'[a] = "set"
          /\ \A t \in EventTypes, h \in HandlerNames :
                 Occurrences(handlers'[t], h) >=
                     Occurrences(handlers[t], h)
                         + Cardinality(Declared(Added, t, h))]_vars

\* an application with handlers for two classes was added, with another
\* one, before the dispatch loop has started
C24_Witness ==
    /\ pc = "init"
    /\ rpc = "none"
    /\ apps = <<"sched", "work">>
    /\ engine["work"] = "set"
    /\ handlers["A"] = <<"fail">>
    /\ handlers["B"] = <<"count">>

\* C25: once the engine runs, every handler binding declared by the class
\* of an application in _apps, whether it came by the constructor or by
\* add_app, is in the handler table under its event class.
C25_ConstructorAppsRegistered ==
    pc # "init" =>
        \A i \in 1..Len(apps), t \in EventTypes, h \in HandlerNames :
            Declared(<<apps[i]>>, t, h) # {} => h \in Range(handlers[t])

\* C27: an operation on an application whose engine is not set raises
\* EngineNotSetError and no other exception.
C27_EngineNotSetError ==
    \A a \in Apps :
        engine[a] = "none" => err[a] \in {"none", "EngineNotSetError"}

----------------------------------------------------------------------------
\* Properties of the timers and tasks of an application

\* C26: a timer task exists only for a timer whose interval argument was
\* accepted by the decorator and is a number greater than zero.
C26_IntervalValidated ==
    \A t \in Timers :
        timer[t].pc # "none" =>
            interval[t].raised = "none" /\ interval[t].interval > 0

\* the plain functions that are timers, background tasks or handlers
PlainCallables ==
    {t \in Timers : PlainTimer(t)} \cup {w \in Workers : Blocking(w)}
        \cup {"block"}

\* a plain function is executing in a thread
ThreadRunning ==
    \/ \E w \in Workers : worker[w].th = "running"
    \/ \E t \in Timers : tth[t] = "running"
    \/ \E n \in 1..Len(invoked) : tstate[n] = "thread"

\* C28: a plain function registered as a timer, background task or event
\* handler never runs on the scheduler's thread: while it executes, it has
\* a thread of its own and its coroutine is suspended awaiting it, and the
\* tasks that are ready can take their steps; what the function returns
\* or raises is what the coroutine that still awaits it ends with.
C28_BlockingOffloaded ==
    /\ onLoop \cap PlainCallables = {}
    /\ \A w \in Workers :
          Blocking(w) =>
            /\ worker[w].co = "running" => worker[w].th = "running"
            /\ worker[w].co \in {"returned", "raised"} =>
                  worker[w].th = worker[w].co
            /\ worker[w].th \in {"returned", "raised"} =>
                  worker[w].co \in {worker[w].th, "cancelled"}
    /\ \A t \in Timers :
          PlainTimer(t) /\ timer[t].pc = "call" => tth[t] # "none"
    /\ \A n \in 1..Len(invoked) :
          invoked[n].h = "block" => tstate[n] # "called"
    /\ ThreadRunning /\ LoopSuspended =>
          /\ \A t \in Timers :
                timer[t].pc = "sleep" /\ timer[t].calls < MaxTicks =>
                    ENABLED TimerWake(t)
          /\ \A n \in 1..Len(invoked) : NextTask(n) => ENABLED RunBlock(n)
          /\ pc = "wait" /\ ~Empty(queue) => ENABLED LoopSingle

\* the thread of the first handler call still runs after the second call
\* has started and ended, the thread of the second call of the timer and
\* that of a background task run, and another background task has got
\* the exception of its function
C28_Witness ==
    /\ \E i, j \in 1..Len(invoked) :
          i < j /\ tstate[i] = "thread" /\ tstate[j] \in {"ok", "exc"}
    /\ worker["poll"].co = "running" /\ worker["poll"].th = "running"
    /\ tth["tick"] = "running" /\ timer["tick"].calls >= 2
    /\ worker["poll_again"].co = "raised"

\* C29: a plain function registered as an engine-level exit callback is
\* not run on the scheduler's thread by run().
C29_ExitCallbacksOffloaded ==
    \A f \in Range(exit_callbacks) :
        ~IsCoroutineFunction(f) => f \notin onLoop

\* the methods of the class of application a that are decorated with @task
DeclaredTasks(a) == Range(RunForeverRegistry(a))

\* the tasks start() has made for method m of application a
RECURSIVE LaunchedFor(_, _)
LaunchedFor(ws, m) ==
    IF ws = {} THEN 0
    ELSE LET w == CHOOSE x \in ws : TRUE
         IN  (IF Method(w) = m THEN launched[w] ELSE 0)
                + LaunchedFor(ws \ {w}, m)

\* C30: start() of an application never makes more than one task for a
\* timer or for a method decorated with @task, and once it has gone past
\* its hook it has made exactly one for each of them.
C30_EachLaunchedOnce ==
    \A a \in Apps :
        /\ \A t \in TimersOf(a) : launched[t] <= 1
        /\ \A m \in DeclaredTasks(a) : LaunchedFor(WorkersOf(a), m) <= 1
        /\ spc[a] = "phase" =>
            /\ \A t \in TimersOf(a) : launched[t] = 1
            /\ \A m \in DeclaredTasks(a) : LaunchedFor(WorkersOf(a), m) = 1

----------------------------------------------------------------------------
\* Further properties of the dispatch engine

\* handler calls that have started and not ended
InProgress == {n \in 1..Len(invoked) : tstate[n] \in {"thread", "blocked"}}

\* C31: while handler calls are in progress, the loop is never held back:
\* at the top of an iteration it can go on to its get() or its snapshot,
\* a get() on a queue that has an item can return and dispatch it, and a
\* drain can take its next item or dispatch its batches.
C31_LoopNeverWaitsForHandler ==
    InProgress # {} =>
        /\ pc = "top" /\ active => ENABLED (LoopAwaitGet \/ LoopSnapshot)
        /\ pc = "wait" /\ ~Empty(queue) => ENABLED LoopSingle
        /\ pc = "drain" => ENABLED (LoopGet \/ LoopDispatch)

\* calls for two batches are in progress at once, and the loop is about
\* to dispatch a third
C31_Witness ==
    /\ \E i, j \in InProgress : invoked[i].b < invoked[j].b
    /\ pc = "wait"
    /\ ~Empty(queue)

\* every pub_event call made so far has returned and its event has been
\* passed to process_event
AllDispatched ==
    /\ putters = <<>>
    /\ woken = {}
    /\ \A id \in 1..Len(published) : id \in DispatchedIds

\* C32: while the loop runs, it is true again and again that every
\* pub_event call made so far has returned and its event was dispatched:
\* no call, suspended on a full queue or made by a handler, waits for ever.
C32_PublishedEventuallyDispatched == []<>AllDispatched

\* a handler is suspended in pub_event on the full queue
C32_Witness ==
    /\ \E i \in 1..Len(putters) : putters[i].who # 0
    /\ Full(queue)

\* C33: of two dispatched events of one class, the one that was enqueued
\* first is in an earlier batch, or in the same batch at an earlier
\* position; and the handler calls for an earlier batch are made before
\* those for a later one.
C33_FifoPerType ==
    /\ \A b1, b2 \in 1..Len(dispatched) :
          \A j1 \in 1..Len(dispatched[b1].batch),
             j2 \in 1..Len(dispatched[b2].batch) :
              /\ dispatched[b1].batch[j1].type = dispatched[b2].batch[j2].type
              /\ EnqPos(dispatched[b1].batch[j1].id)
                    < EnqPos(dispatched[b2].batch[j2].id)
              => b1 < b2 \/ (b1 = b2 /\ j1 < j2)
    /\ \A i, k \in 1..Len(invoked) :
          invoked[i].b < invoked[k].b => i < k

\* three events of one class went to a handler in batches of two rounds:
\* the first alone, the next two together after a drain
C33_Witness ==
    \E i, k \in 1..Len(invoked) :
        /\ invoked[i].key = invoked[k].key
        /\ invoked[i].slot = invoked[k].slot
        /\ dispatched[invoked[i].b].round < dispatched[invoked[k].b].round
        /\ Len(invoked[k].batch) >= 2
        /\ dispatched[invoked[k].b].path = "drain"

\* C34: a step that clears the active flag leaves the queue, the suspended
\* publishers, the handler table, the tracked handler tasks and the state
\* of every handler call as they are.
C34_StopChangesFlagOnly ==
    [][active /\ ~active' =>
          /\ queue' = queue
          /\ putters' = putters
          /\ woken' = woken
          /\ handlers' = handlers
          /\ tasks' = tasks
          /\ tstate' = tstate
          /\ qexists' = qexists
          /\ pc' = pc]_vars

\* stop() was called while events were queued and handler tasks were
\* pending: they still are
C34_Witness ==
    /\ ~active
    /\ pc = "wait"
    /\ queue # <<>>
    /\ tasks # {}
    /\ \E t \in EventTypes : handlers[t] # <<>>

\* C35: a call of start() on an engine whose loop runs leaves the queue
\* and the publishers suspended on it as they are.
C35_SecondStartNoOp ==
    [][StartAgain =>
          /\ queue' = queue
          /\ putters' = putters
          /\ woken' = woken]_vars

\* C36: once the loop has ended, by stop() or by the cancellation of its
\* task, the active flag is false.
C36_InactiveOnceLoopEnded ==
    pc \in {"exited", "cancelled"} => ~active

\* C37: a call of a timer starts only when no call of that timer is in
\* progress, in the coroutine or in a thread, and every call but the
\* first one at once starts at the end of a sleep that followed the call
\* before it.
C37_TimerWaitsBetweenCalls ==
    [][\A t \in Timers :
          timer'[t].calls > timer[t].calls =>
              /\ timer'[t].calls = timer[t].calls + 1
              /\ tth[t] # "running"
              /\ \/ timer[t].pc = "created" /\ timer[t].calls = 0
                 \/ /\ timer[t].pc = "sleep"
                    /\ timer'[t].sleeps = timer[t].sleeps + 1]_vars

\* the second call of the plain-function timer runs in its thread, after
\* one sleep
C37_Witness ==
    /\ timer["tick"].pc = "call"
    /\ timer["tick"].calls = 2
    /\ timer["tick"].sleeps = 1
    /\ tth["tick"] = "running"

\* C38: when the before_start hook of an application has raised, none of
\* its timers and background tasks is ever created, its start() does not
\* end with the exception, and its exit() has been called once by the
\* time start() awaits it or has ended.
C38_HookRaisedNothingStarted ==
    \A a \in Apps :
        hook[a] = "raised" =>
            /\ \A t \in TimersOf(a) : timer[t].pc = "none" /\ launched[t] = 0
            /\ \A w \in WorkersOf(a) :
                  worker[w].co = "none" /\ launched[w] = 0
            /\ sres[a] # "raised"
            /\ exits[a] <= 1
            /\ spc[a] \in {"exit", "done"} => exits[a] = 1

\* the hook has raised and start() has returned after its exit()
C38_Witness ==
    /\ hook["sched"] = "raised"
    /\ spc["sched"] = "done"
    /\ sres["sched"] = "returned"
    /\ exits["sched"] = 1

\* the handler methods the class of application a has for event class t:
\* those of its own body and those of its base classes
RECURSIVE MethodsOf(_, _)
MethodsOf(c, t) ==
    IF c = "Application" THEN {}
    ELSE MethodsOf(BaseOf(c), t) \cup
         {EventMethods(c)[i].method :
            i \in {i \in 1..Len(EventMethods(c)) : EventMethods(c)[i].type = t}}

\* C39: while one application is attached, every handler method of its
\* class, inherited or overridden, is in the handler table exactly once
\* under its event class, and every dispatched batch of that class has
\* caused exactly one call of the method.
C39_EachHandlerOnce ==
    Len(apps) = 1 =>
        \A t \in EventTypes :
            \A h \in MethodsOf(apps[1], t) :
                /\ Occurrences(handlers[t], h) = 1
                /\ \A b \in 1..Len(dispatched) :
                      TypeOf(dispatched[b].batch) = t =>
                          Cardinality({i \in CallsOf(b) : invoked[i].h = h})
                              = 1

\* handler calls whose task has not ended
Unfinished == {n \in 1..Len(invoked) : tstate[n] \notin {"ok", "exc"}}

\* handler calls whose task has ended
Ended == {n \in 1..Len(invoked) : tstate[n] \in {"ok", "exc"}}

\* C40 as stated: the tracked set is exactly the set of handler calls that
\* were dispatched and have not completed, so it never holds a completed
\* task and is empty once all handlers have finished
C40_TrackedExactlyUnfinished == tasks = Unfinished

\* C40 amended: the tracked set holds only dispatched handler calls and
\* every one of them that has not completed; a task enters it in the step
\* that dispatches it; a task leaves it only after it has completed, by
\* success or by failure, in the step of its done callback, until which
\* the set still holds the completed task; with all handlers finished and
\* no done callback left to run the set is empty
C40_TrackedUntilDiscarded ==
    /\ [](/\ tasks \subseteq 1..Len(invoked)
          /\ Unfinished \subseteq tasks
          /\ (Unfinished = {} /\ ~ENABLED (\E n \in tasks : Discard(n)))
                => tasks = {})
    /\ [][/\ tasks' \ tasks = (Len(invoked) + 1) .. Len(invoked')
          /\ tasks \ tasks' \subseteq Ended]_vars

\* C40 witness: of the three tasks of one batch the returning one and the
\* raising one have ended and left the set, the call of the plain function
\* is still in its thread and in the set
C40_Witness ==
    \E i, j, k \in 1..Len(invoked) :
        /\ invoked[i].b = invoked[j].b /\ invoked[j].b = invoked[k].b
        /\ tstate[i] = "ok" /\ invoked[i].h = "count" /\ i \notin tasks
        /\ tstate[j] = "exc" /\ invoked[j].h = "fail" /\ j \notin tasks
        /\ tstate[k] = "thread" /\ k \in tasks

\* C40 witness: every handler of two batches has finished, by success and
\* by failure, the done callbacks have run and the set is empty
C40_WitnessEmpty ==
    /\ Len(dispatched) = 2
    /\ Len(invoked) = 6
    /\ Unfinished = {}
    /\ \E i, j \in 1..Len(invoked) : tstate[i] = "ok" /\ tstate[j] = "exc"
    /\ tasks = {}

============================================================================
